---- MODULE Spec2Model ----
(***************************************************************************)
(* A model of the spatial filtering core of improver: the RecursiveFilter  *)
(* plugin (set_alphas, recurse_forward, recurse_backward, run_recursion,   *)
(* process), the SquareNeighbourhood plugin (construction, run) and the    *)
(* halo padding they share (pad_cube_with_halo and its inverse).           *)
(*                                                                         *)
(* The plugins' own modules are not among the source files; what the unit  *)
(* tests fix (shapes, error cases, the fixture values) is modelled from    *)
(* the tests, the rest from the specification.                             *)
(*                                                                         *)
(* Numbers.  A data value is an integer count of 1/One (fixed point, One = *)
(* 2^24), so that every value the filter produces is stored exactly while  *)
(* it needs at most 24 fractional bits, and is rounded down beyond that.   *)
(* A smoothing coefficient is an integer count of 1/AlphaDen.  NaN is a    *)
(* value of its own.                                                       *)
(***************************************************************************)
EXTENDS Integers, Sequences, FiniteSets, TLC

\* ------------------------------------------------------------- bounds
MaxRows == 2
MaxCols == 2
MaxSlices == 2
MaxIter == 2
MaxEdge == 1
MaxHalo == 2
MaxCubes == 2
MaxSide == 11
NBMaxCols == 3
AlphaDen == 4

One == 2^24
NaN == 0 - 1
None == 0 - 1000

\* ------------------------------------------------------------- arrays
\* A plane is a sequence of rows, each a sequence of cells: a 2D array.
Shape(p) == <<Len(p), Len(p[1])>>

\* A function on 1..n as a tuple, every element evaluated once.
Strict(f) == f \o <<>>

Full(rows, cols, v) ==
    Strict([i \in 1..rows |-> Strict([j \in 1..cols |-> v])])

Clamp(k, n) == IF k < 1 THEN 1 ELSE IF k > n THEN n ELSE k

Transpose(p) ==
    Strict([j \in 1..Len(p[1]) |-> Strict([i \in 1..Len(p) |-> p[i][j]])])

isnan(v) == v = NaN

\* ------------------------------------------------------------- halo
\* Faulty variant of HaloCells: one cell for each unit of width.
HaloCellsSingle(width) == width

\* The number of cells added on each side for a halo of the given width.
HaloCells(width) == 2 * width

\* Faulty variant of pad_cube_with_halo: the halo cells hold 0.
pad_cube_with_halo_zero(p, width_x, width_y) ==
    Strict([i \in 1..(Len(p) + 2 * HaloCells(width_y)) |->
        Strict([j \in 1..(Len(p[1]) + 2 * HaloCells(width_x)) |->
            IF /\ HaloCells(width_y) < i /\ i <= HaloCells(width_y) + Len(p)
               /\ HaloCells(width_x) < j /\ j <= HaloCells(width_x) + Len(p[1])
                THEN p[i - HaloCells(width_y)][j - HaloCells(width_x)]
                ELSE 0])])

\* SquareNeighbourhood.pad_cube_with_halo(cube, width_x, width_y): the plane
\* with the halo added on every side, each halo cell holding the value of the
\* nearest cell of the plane.
pad_cube_with_halo(p, width_x, width_y) ==
    Strict([i \in 1..(Len(p) + 2 * HaloCells(width_y)) |->
        Strict([j \in 1..(Len(p[1]) + 2 * HaloCells(width_x)) |->
            p[Clamp(i - HaloCells(width_y), Len(p))]
             [Clamp(j - HaloCells(width_x), Len(p[1]))]])])

\* Faulty variant of strip_halo: takes off half of the halo only.
strip_halo_short(p, width_x, width_y) ==
    Strict([i \in 1..(Len(p) - 2 * width_y) |->
        Strict([j \in 1..(Len(p[1]) - 2 * width_x) |->
            p[i + width_y][j + width_x]])])

\* Faulty variant of strip_halo: a plane of the right shape, taken one halo
\* width too early along both axes.
strip_halo_shifted(p, width_x, width_y) ==
    Strict([i \in 1..(Len(p) - 2 * HaloCells(width_y)) |->
        Strict([j \in 1..(Len(p[1]) - 2 * HaloCells(width_x)) |->
            p[i + width_y][j + width_x]])])

\* The inverse of pad_cube_with_halo: the plane without its halo.
strip_halo(p, width_x, width_y) ==
    Strict([i \in 1..(Len(p) - 2 * HaloCells(width_y)) |->
        Strict([j \in 1..(Len(p[1]) - 2 * HaloCells(width_x)) |->
            p[i + HaloCells(width_y)][j + HaloCells(width_x)]])])

\* ------------------------------------------------------------- RecursiveFilter
\* Faulty variant of ValidAlpha: the ends of the interval are let through.
ValidAlphaClosed(a) == 0 <= a /\ a <= AlphaDen

\* 0 < alpha < 1, for a coefficient given as a count of 1/AlphaDen.
ValidAlpha(a) == 0 < a /\ a < AlphaDen

\* The check of edge_width at construction: the error message, or "".
EdgeWidthError(edge_width) ==
    IF edge_width < 1 THEN "Invalid edge_width: must be >= 1" ELSE ""

\* Faulty variant of RecursiveFilterInit: only a negative number of
\* iterations is refused.
RecursiveFilterInitNegative(alpha_x, alpha_y, iterations, edge_width) ==
    IF alpha_x # None /\ ~ValidAlpha(alpha_x)
        THEN "Invalid alpha_x: must be > 0 and < 1"
    ELSE IF alpha_y # None /\ ~ValidAlpha(alpha_y)
        THEN "Invalid alpha_y: must be > 0 and < 1"
    ELSE IF iterations < 0
        THEN "Invalid number of iterations: must be >= 1"
    ELSE EdgeWidthError(edge_width)

\* RecursiveFilter.__init__: the error message, or "" when the plugin is built.
\* An alpha that is None is not checked.
RecursiveFilterInit(alpha_x, alpha_y, iterations, edge_width) ==
    IF alpha_x # None /\ ~ValidAlpha(alpha_x)
        THEN "Invalid alpha_x: must be > 0 and < 1"
    ELSE IF alpha_y # None /\ ~ValidAlpha(alpha_y)
        THEN "Invalid alpha_y: must be > 0 and < 1"
    ELSE IF iterations < 1
        THEN "Invalid number of iterations: must be >= 1"
    ELSE EdgeWidthError(edge_width)

\* Every cell of an alpha field lies in (0, 1).
ValidAlphaField(f) ==
    \A i \in 1..Len(f) : \A j \in 1..Len(f[1]) : ValidAlpha(f[i][j])

\* Faulty variant of set_alphas_error: a scalar alpha wins over a field
\* given with it.
set_alphas_error_both(shape, alpha, alphas_cube) ==
    IF alphas_cube = <<>> /\ alpha = None
        THEN "A value for alpha must be set if alphas_cube is None"
    ELSE IF alpha = None /\ Shape(alphas_cube) # shape
        THEN "Dimensions of alphas array do not match dimensions of data array"
    ELSE IF alpha = None /\ ~ValidAlphaField(alphas_cube)
        THEN "Invalid alphas_cube: values must be > 0 and < 1"
    ELSE ""

\* Faulty variant of set_alphas_error: a direction given neither a scalar
\* nor a field is let through.
set_alphas_error_neither(shape, alpha, alphas_cube) ==
    IF alphas_cube # <<>> /\ alpha # None
        THEN "A cube of alpha values and a single float value for alpha have both been provided"
    ELSE IF alphas_cube # <<>> /\ Shape(alphas_cube) # shape
        THEN "Dimensions of alphas array do not match dimensions of data array"
    ELSE IF alphas_cube # <<>> /\ ~ValidAlphaField(alphas_cube)
        THEN "Invalid alphas_cube: values must be > 0 and < 1"
    ELSE ""

\* Faulty variant of set_alphas_error: only the number of rows of the field
\* is compared with that of the data.
set_alphas_error_rows(shape, alpha, alphas_cube) ==
    IF alphas_cube # <<>> /\ alpha # None
        THEN "A cube of alpha values and a single float value for alpha have both been provided"
    ELSE IF alphas_cube = <<>> /\ alpha = None
        THEN "A value for alpha must be set if alphas_cube is None"
    ELSE IF alphas_cube # <<>> /\ Len(alphas_cube) # shape[1]
        THEN "Dimensions of alphas array do not match dimensions of data array"
    ELSE IF alphas_cube # <<>> /\ ~ValidAlphaField(alphas_cube)
        THEN "Invalid alphas_cube: values must be > 0 and < 1"
    ELSE ""

\* RecursiveFilter.set_alphas(cube, alpha, alphas_cube): the error message,
\* or "" when an alpha field can be made.  shape is the shape of the data
\* plane; alphas_cube is <<>> when no field is given.
set_alphas_error(shape, alpha, alphas_cube) ==
    IF alphas_cube # <<>> /\ alpha # None
        THEN "A cube of alpha values and a single float value for alpha have both been provided"
    ELSE IF alphas_cube = <<>> /\ alpha = None
        THEN "A value for alpha must be set if alphas_cube is None"
    ELSE IF alphas_cube # <<>> /\ Shape(alphas_cube) # shape
        THEN "Dimensions of alphas array do not match dimensions of data array"
    ELSE IF alphas_cube # <<>> /\ ~ValidAlphaField(alphas_cube)
        THEN "Invalid alphas_cube: values must be > 0 and < 1"
    ELSE ""

\* The alpha field set_alphas returns when it raises nothing: the scalar on
\* every cell of the padded grid, or the given field padded with the halo.
set_alphas(shape, alpha, alphas_cube, edge_width) ==
    IF alphas_cube = <<>>
        THEN Full(shape[1] + 2 * HaloCells(edge_width),
                  shape[2] + 2 * HaloCells(edge_width), alpha)
        ELSE pad_cube_with_halo(alphas_cube, edge_width, edge_width)

\* Faulty variant of Blend: the weights are the other way round.
BlendSwapped(a, value, previous) ==
    (a * value + (AlphaDen - a) * previous) \div AlphaDen

\* One step of the recursion: (1 - alpha) * value + alpha * previous.
Blend(a, value, previous) ==
    ((AlphaDen - a) * value + a * previous) \div AlphaDen

\* Faulty variant of ForwardLine: each cell is blended with the input of the
\* cell before it, not with its output.
ForwardLineOfInput(line, al, i, acc) ==
    Strict([n \in 1..Len(line) |->
        IF n = 1 THEN line[1] ELSE Blend(al[n], line[n], line[n - 1])])

RECURSIVE ForwardLine(_, _, _, _)
\* The forward recursion along one line, from its first cell to its last; acc
\* holds the cells already done.
ForwardLine(line, al, i, acc) ==
    IF i > Len(line) THEN acc
    ELSE ForwardLine(line, al, i + 1,
            Append(acc, IF i = 1 THEN line[1]
                        ELSE Blend(al[i], line[i], acc[i - 1])))

Reverse(s) == Strict([i \in 1..Len(s) |-> s[Len(s) + 1 - i]])

\* Faulty variant of BackwardLine: the line is run through from its first
\* cell, as in the forward recursion.
BackwardLineFromFirst(line, al, i, acc) == ForwardLine(line, al, 1, <<>>)

RECURSIVE BackwardLine(_, _, _, _)
\* The backward recursion along one line, from its last cell to its first;
\* acc holds the cells already done, last cell first.
BackwardLine(line, al, i, acc) ==
    IF i < 1 THEN Reverse(acc)
    ELSE BackwardLine(line, al, i - 1,
            Append(acc, IF i = Len(line) THEN line[i]
                        ELSE Blend(al[i], line[i], acc[Len(line) - i])))

\* RecursiveFilter.recurse_forward(grid, alphas, axis): axis 1 runs along
\* each row (x), axis 0 along each column (y).
recurse_forward(grid, alphas, axis) ==
    IF axis = 1
        THEN Strict([i \in 1..Len(grid) |->
                 ForwardLine(grid[i], alphas[i], 1, <<>>)])
        ELSE LET g == Transpose(grid)
                 a == Transpose(alphas)
             IN  Transpose(Strict([j \in 1..Len(g) |->
                     ForwardLine(g[j], a[j], 1, <<>>)]))

\* RecursiveFilter.recurse_backward(grid, alphas, axis).
recurse_backward(grid, alphas, axis) ==
    IF axis = 1
        THEN Strict([i \in 1..Len(grid) |->
                 BackwardLine(grid[i], alphas[i], Len(grid[i]), <<>>)])
        ELSE LET g == Transpose(grid)
                 a == Transpose(alphas)
             IN  Transpose(Strict([j \in 1..Len(g) |->
                     BackwardLine(g[j], a[j], Len(g[j]), <<>>)]))

\* The axis of the x and of the y coordinate of a plane.
x_index == 1
y_index == 0

\* Faulty variant of set_up_data: a NaN cell that is not masked keeps its
\* value.
set_up_data_masked_only(data, mask) ==
    Strict([i \in 1..Len(data) |-> Strict([j \in 1..Len(data[1]) |->
        IF mask[i][j] THEN 0 ELSE data[i][j]])])

\* Faulty variant of set_up_data: an invalid cell is taken as 2 and not as 0.
set_up_data_invalid_as_two(data, mask) ==
    Strict([i \in 1..Len(data) |-> Strict([j \in 1..Len(data[1]) |->
        IF mask[i][j] \/ isnan(data[i][j]) THEN 2 * One ELSE data[i][j]])])

\* The data of a plane as the filter works on it: 0 where the cell is masked
\* or NaN, the value elsewhere.
set_up_data(data, mask) ==
    Strict([i \in 1..Len(data) |-> Strict([j \in 1..Len(data[1]) |->
        IF mask[i][j] \/ isnan(data[i][j]) THEN 0 ELSE data[i][j]])])

\* The validity mask of a plane: TRUE where the cell is masked or NaN.
ValidityMask(data, mask) ==
    Strict([i \in 1..Len(data) |-> Strict([j \in 1..Len(data[1]) |->
        mask[i][j] \/ isnan(data[i][j])])])

\* Faulty variant of re_apply_mask: the mask of the input is dropped, only
\* the NaN cells are masked.
re_apply_mask_nan_only(data, mask) ==
    Strict([i \in 1..Len(data) |-> Strict([j \in 1..Len(data[1]) |->
        isnan(data[i][j])])])

\* The mask process puts on a smoothed plane: the validity mask of its input.
re_apply_mask(data, mask) == ValidityMask(data, mask)

\* RecursiveFilter.run_recursion(cube, alphas_x, alphas_y, iterations) on a
\* padded plane: each iteration runs forward then backward along x, then
\* forward then backward along y, each pass on the result of the one before.
RECURSIVE run_recursion(_, _, _, _)
run_recursion(grid, alphas_x, alphas_y, iterations) ==
    IF iterations < 1 THEN grid
    ELSE run_recursion(
            recurse_backward(
                recurse_forward(
                    recurse_backward(
                        recurse_forward(grid, alphas_x, x_index),
                        alphas_x, x_index),
                    alphas_y, y_index),
                alphas_y, y_index),
            alphas_x, alphas_y, iterations - 1)

\* ------------------------------------------------------------- SquareNeighbourhood
\* The spacing of the grid and the radii a caller asks for, in metres.
GridSpacing == 2000
Radii == {GridSpacing \div 2, GridSpacing + GridSpacing \div 4,
          2 * GridSpacing + GridSpacing \div 4}

\* Faulty variant of SquareNeighbourhoodInit: any option is taken.
SquareNeighbourhoodInitAny(sum_or_fraction) == ""

\* SquareNeighbourhood.__init__: the error message, or "".
SquareNeighbourhoodInit(sum_or_fraction) ==
    IF sum_or_fraction \notin {"sum", "fraction"}
        THEN "option is invalid. Valid options are 'sum' or 'fraction'"
    ELSE ""

\* The radius in grid cells: the distance over the grid spacing, rounded down.
distance_to_number_of_grid_cells(radius) == radius \div GridSpacing

\* The check of the radius in grid cells: the error message, or "".
RadiusError(radius) ==
    IF distance_to_number_of_grid_cells(radius) < 1
        THEN "Distance gives zero cell extent"
    ELSE ""

\* The cells of the window of radius r round (i, j) that lie on the plane.
Window(rows, cols, i, j, r) ==
    { <<a, b>> \in (1..rows) \X (1..cols) :
        /\ i - r <= a /\ a <= i + r
        /\ j - r <= b /\ b <= j + r }

\* Faulty variant of ValidCells: a NaN cell that is not masked counts.
ValidCellsUnmasked(data, mask, cells) ==
    { c \in cells : ~mask[c[1]][c[2]] }

\* The cells of a set that are neither masked nor NaN.
ValidCells(data, mask, cells) ==
    { c \in cells : ~mask[c[1]][c[2]] /\ ~isnan(data[c[1]][c[2]]) }

RECURSIVE SumCells(_, _)
SumCells(data, cells) ==
    IF cells = {} THEN 0
    ELSE LET c == CHOOSE x \in cells : TRUE
         IN  data[c[1]][c[2]] + SumCells(data, cells \ {c})

\* Faulty variant of neighbourhood_cell: a cell that is NaN itself is given
\* the average of the valid cells of its window.
neighbourhood_cell_from_neighbours(data, mask, i, j, r, sum_or_fraction) ==
    LET valid == ValidCells(data, mask,
                     Window(Len(data), Len(data[1]), i, j, r))
    IN  IF sum_or_fraction = "sum" THEN SumCells(data, valid)
        ELSE IF valid = {} THEN NaN
        ELSE SumCells(data, valid) \div Cardinality(valid)

\* The value SquareNeighbourhood.run gives one cell: NaN where the cell is
\* NaN itself or has no valid cell in its window, else the sum of the valid
\* cells of its window, divided by their number unless the sum is asked for.
neighbourhood_cell(data, mask, i, j, r, sum_or_fraction) ==
    LET valid == ValidCells(data, mask,
                     Window(Len(data), Len(data[1]), i, j, r))
    IN  IF isnan(data[i][j]) THEN NaN
        ELSE IF sum_or_fraction = "sum" THEN SumCells(data, valid)
        ELSE IF valid = {} THEN NaN
        ELSE SumCells(data, valid) \div Cardinality(valid)

\* The neighbourhood-processed data of one plane.
neighbourhood(data, mask, r, sum_or_fraction) ==
    Strict([i \in 1..Len(data) |-> Strict([j \in 1..Len(data[1]) |->
        neighbourhood_cell(data, mask, i, j, r, sum_or_fraction)])])

\* Faulty variant of neighbourhood_mask: with re-masking, the mask of the
\* input and nothing more.
neighbourhood_mask_of_input(data, mask, r, re_mask) ==
    IF re_mask THEN mask ELSE Full(Len(mask), Len(mask[1]), FALSE)

\* The mask of the neighbourhood-processed plane.  With re-masking, the mask
\* of the input, and a cell with no valid cell in its window is masked too;
\* without, no cell is masked.
neighbourhood_mask(data, mask, r, re_mask) ==
    Strict([i \in 1..Len(mask) |-> Strict([j \in 1..Len(mask[1]) |->
        /\ re_mask
        /\ \/ mask[i][j]
           \/ ValidCells(data, mask,
                  Window(Len(data), Len(data[1]), i, j, r)) = {}])])

\* ------------------------------------------------------------- ExtendRadarMask
\* ExtendRadarMask.__init__: the values of the coverage composite for which
\* radar data is valid.
coverage_valid == {1, 2}

\* The values of the coverage composite: 0 outside the composite, 1 precip
\* detected, 2 and 3 precip not detected.
CoverageValues == 0..3

\* Faulty variant of new_mask: the mask of the radar data is kept as well.
new_mask_extended(rad_mask, cov) ==
    Strict([i \in 1..Len(cov) |-> Strict([j \in 1..Len(cov[1]) |->
        rad_mask[i][j] \/ cov[i][j] \notin coverage_valid])])

\* new_mask = ~np.isin(cov.data, self.coverage_valid): TRUE wherever the
\* coverage is not valid.  The mask of the radar data has no part in it.
new_mask(rad_mask, cov) ==
    Strict([i \in 1..Len(cov) |-> Strict([j \in 1..Len(cov[1]) |->
        cov[i][j] \notin coverage_valid])])

\* remasked_data = np.ma.MaskedArray(rad.data.data, mask=new_mask): the
\* values under the old mask with the new mask on them.
remasked_data(rad, cov) ==
    [data |-> rad.data, mask |-> new_mask(rad.mask, cov)]

\* ------------------------------------------- ApplyOrographicEnhancement
\* self.min_precip_rate_mmh = 1 / 32.0, the lower precipitation rate threshold.
min_precip_rate_mmh == One \div 32

\* Faulty variant of ApplyOrographicEnhancementInit: the operation is
\* examined at construction.
ApplyOrographicEnhancementInitChecked(operation) ==
    IF operation \in {"add", "subtract"} THEN "" ELSE "Operation not supported."

\* ApplyOrographicEnhancement.__init__(operation): the error it raises, ""
\* when it raises none.  The operation is stored and never examined.
ApplyOrographicEnhancementInit(operation) == ""

\* a < b and a >= b and a <= b on floats: false when either is NaN.
Less(a, b) == a # NaN /\ b # NaN /\ a < b
GreaterEqual(a, b) == a # NaN /\ b # NaN /\ a >= b
LessEqual(a, b) == a # NaN /\ b # NaN /\ a <= b

\* a + b and a - b on floats: NaN when either is NaN.
Plus(a, b) == IF a = NaN \/ b = NaN THEN NaN ELSE a + b
Minus(a, b) == IF a = NaN \/ b = NaN THEN NaN ELSE a - b

\* oe_cube.data[precip_cube.data < threshold_in_cube_units] = 0.0
zero_below_threshold(oe, precip) ==
    Strict([i \in 1..Len(oe) |-> Strict([j \in 1..Len(oe[1]) |->
        IF Less(precip[i][j], min_precip_rate_mmh) THEN 0 ELSE oe[i][j]])])

\* _apply_orographic_enhancement: the error raised for the operation, ""
\* when it is "add" or "subtract".
apply_orographic_enhancement_error(operation) ==
    IF operation \in {"add", "subtract"} THEN ""
    ELSE "Operation not supported for combining precipitation rate and orographic enhancement."

\* cube.data + oe_cube.data for "add", cube.data - oe_cube.data for
\* "subtract", on the enhancement already set to zero below the threshold.
apply_orographic_enhancement(operation, precip, oe) ==
    Strict([i \in 1..Len(precip) |-> Strict([j \in 1..Len(precip[1]) |->
        IF operation = "add" THEN Plus(precip[i][j], oe[i][j])
        ELSE Minus(precip[i][j], oe[i][j])])])

\* Faulty variant of apply_minimum_precip_rate: only a negative rate is
\* raised, to 0.
apply_minimum_precip_rate_zero(operation, precip, combined) ==
    IF operation # "subtract" THEN combined
    ELSE Strict([i \in 1..Len(precip) |-> Strict([j \in 1..Len(precip[1]) |->
             IF Less(combined[i][j], 0) THEN 0 ELSE combined[i][j]])])

\* _apply_minimum_precip_rate: for "subtract" a cell whose input rate is at
\* least the threshold and whose combined rate is at most the threshold is
\* set to the threshold; nothing is done for another operation.
apply_minimum_precip_rate(operation, precip, combined) ==
    IF operation # "subtract" THEN combined
    ELSE Strict([i \in 1..Len(precip) |-> Strict([j \in 1..Len(precip[1]) |->
             IF /\ GreaterEqual(precip[i][j], min_precip_rate_mmh)
                /\ LessEqual(combined[i][j], min_precip_rate_mmh)
                 THEN min_precip_rate_mmh
             ELSE combined[i][j]])])

\* ------------------------------------------------------------- FillRadarHoles
\* _find_speckle: pmasked = 0.3, as pmasked_num over pmasked_den, and r = 4.
pmasked_num == 3
pmasked_den == 10
find_speckle_r == 4

\* _interpolate_points: r = 2.
interpolate_points_r == 2

\* The cells y-r..y+r, x-r..x+r of a plane with the given numbers of rows
\* and columns, for a cell (y, x) at least r cells from the first row and
\* column: a slice is cut short at the end of the array.
Slice(rows, cols, y, x, r) ==
    { c \in ((y - r)..(y + r)) \X ((x - r)..(x + r)) :
        c[1] <= rows /\ c[2] <= cols }

\* The cells of a set that are masked.
MaskedCells(mask, cells) == { c \in cells : mask[c[1]][c[2]] }

\* Faulty variant of LoopCells: the loops go up to the last cell whose
\* window lies inside the array.
LoopCellsToLast(rows, cols, r) == ((r + 1)..(rows - r)) \X ((r + 1)..(cols - r))

\* for y in range(r, shape[0]-r-1), for x in range(r, shape[1]-r-1): the
\* cells a loop goes through, counted from 1.
LoopCells(rows, cols, r) == ((r + 1)..(rows - r - 1)) \X ((r + 1)..(cols - r - 1))

\* Faulty variant of nbhood_below_pmasked: the proportion is compared with
\* 0.4.
nbhood_below_pmasked_loose(mask, y, x) ==
    LET cells == Slice(Len(mask), Len(mask[1]), y, x, find_speckle_r)
    IN  pmasked_den * Cardinality(MaskedCells(mask, cells))
            < (pmasked_num + 1) * Cardinality(cells)

\* np.mean(mask[y-r:y+r+1, x-r:x+r+1]) < pmasked
nbhood_below_pmasked(mask, y, x) ==
    LET cells == Slice(Len(mask), Len(mask[1]), y, x, find_speckle_r)
    IN  pmasked_den * Cardinality(MaskedCells(mask, cells))
            < pmasked_num * Cardinality(cells)

\* FillRadarHoles._find_speckle(mask): 1 on the cells the loops go through
\* that are masked and have a masked proportion below pmasked in their
\* neighbourhood, 0 on every other cell.
find_speckle(mask) ==
    Strict([y \in 1..Len(mask) |-> Strict([x \in 1..Len(mask[1]) |->
        IF /\ <<y, x>> \in LoopCells(Len(mask), Len(mask[1]), find_speckle_r)
           /\ mask[y][x]
           /\ nbhood_below_pmasked(mask, y, x)
            THEN 1 ELSE 0])])

\* np.mean(valid_surroundings): NaN for no value and where a value is NaN.
mean(data, cells) ==
    IF cells = {} \/ \E c \in cells : isnan(data[c[1]][c[2]]) THEN NaN
    ELSE SumCells(data, cells) \div Cardinality(cells)

\* FillRadarHoles._interpolate_points(data, speckle): on the cells the loops
\* go through that are flagged, the mean of the unmasked values of the 5x5
\* surroundings in the data as given, and the mask taken off; every other
\* cell as in the data.
interpolate_points(data, mask, speckle) ==
    LET flagged(y, x) ==
            /\ <<y, x>> \in LoopCells(Len(data), Len(data[1]),
                                      interpolate_points_r)
            /\ speckle[y][x] # 0
        valid_surroundings(y, x) ==
            Slice(Len(data), Len(data[1]), y, x, interpolate_points_r)
                \ MaskedCells(mask, Slice(Len(data), Len(data[1]), y, x,
                                          interpolate_points_r))
    IN  [data |-> Strict([y \in 1..Len(data) |->
                      Strict([x \in 1..Len(data[1]) |->
                          IF flagged(y, x)
                              THEN mean(data, valid_surroundings(y, x))
                              ELSE data[y][x]])]),
         mask |-> Strict([y \in 1..Len(data) |->
                      Strict([x \in 1..Len(data[1]) |->
                          mask[y][x] /\ ~flagged(y, x)])])]

\* ------------------------------------------------------------- ConcatenateCubes
\* coords_to_associate as given to __init__: None, or a list of names.
NoCoords == [given |-> FALSE, names |-> {}]

\* ConcatenateCubes.__init__: the coordinates to associate, "forecast_period"
\* when none is given and the master coordinate is "time".
coords_to_associate_default(master_coord, coords_to_associate) ==
    IF ~coords_to_associate.given /\ master_coord = "time"
        THEN [given |-> TRUE, names |-> {"forecast_period"}]
    ELSE coords_to_associate

\* ConcatenateCubes.__init__: the error it raises, "" when it raises none:
\* time, forecast_period and forecast_reference_time may not all be among
\* the associated coordinates and the master coordinate.
ConcatenateCubesInit(master_coord, coords_to_associate) ==
    LET assoc == coords_to_associate_default(master_coord, coords_to_associate)
        associated_coords == assoc.names \cup {master_coord}
    IN  IF /\ assoc.given
           /\ {"time", "forecast_period", "forecast_reference_time"}
                  \subseteq associated_coords
            THEN "Time, forecast period and forecast reference time cannot all be associated with a single dimension"
        ELSE ""

\* if isinstance(cubes_in, iris.cube.Cube): return cubes_in
\* if len(cubes_in) == 1: return cubes_in[0]
returned_unchanged(form, cubes_in) == form = "Cube" \/ Len(cubes_in) = 1

\* all(cube.coords(self.master_coord) for cube in cubes)
master_coord_on_all(master_coord, cubes) ==
    \A i \in 1..Len(cubes) : master_coord \in cubes[i].coords

\* Faulty variant of process_error: the master coordinate is looked for
\* before the input is returned unchanged.
process_error_checked_first(form, master_coord, cubes_in) ==
    IF ~master_coord_on_all(master_coord, cubes_in)
        THEN "Master coordinate is not present on input cube(s)"
    ELSE ""

\* ConcatenateCubes.process: the error it raises before concatenating, ""
\* when it raises none.  A single Cube and a list of one cube are returned
\* before the master coordinate is looked for.
process_error(form, master_coord, cubes_in) ==
    IF returned_unchanged(form, cubes_in) THEN ""
    ELSE IF ~master_coord_on_all(master_coord, cubes_in)
        THEN "Master coordinate is not present on input cube(s)"
    ELSE ""

\* _associate_any_coordinate_with_master_coordinate: where the master
\* coordinate is a dimension of the cube, the coordinates to associate that
\* the cube has are made auxiliary coordinates of that dimension.
associate_any_coordinate_with_master_coordinate(master_coord, assoc, c) ==
    IF master_coord \in c.dim_coords
        THEN [c EXCEPT !.associated = assoc.names \cap c.coords]
    ELSE c

\* ------------------------------------------------------------- one plane
\* What RecursiveFilter.process makes of one plane, given the padded alpha
\* fields: invalid cells set to 0, the halo put on, the recursion run, the
\* halo taken off, the mask put back.
RFResult(data, mask, alphas_x, alphas_y, iterations, edge_width) ==
    [data |-> strip_halo(
                  run_recursion(
                      pad_cube_with_halo(set_up_data(data, mask),
                                         edge_width, edge_width),
                      alphas_x, alphas_y, iterations),
                  edge_width, edge_width),
     mask |-> re_apply_mask(data, mask)]

\* The weight channel of a plane: One where the cell is valid, 0 where it is
\* masked or NaN.
WeightChannel(data, mask) ==
    Strict([i \in 1..Len(data) |-> Strict([j \in 1..Len(data[1]) |->
        IF mask[i][j] \/ isnan(data[i][j]) THEN 0 ELSE One])])

\* The weight channel run through the passes the values are run through.
SmoothedWeight(data, mask, alphas_x, alphas_y, iterations, edge_width) ==
    RFResult(WeightChannel(data, mask),
             Full(Len(data), Len(data[1]), FALSE),
             alphas_x, alphas_y, iterations, edge_width).data

\* The value v over the weight w, both in units of 1/One, to twelve bits;
\* v where the weight is less than a part in 4096.
Normalised(v, w) ==
    IF w < 4096 THEN v ELSE ((v * 64) \div (w \div 4096)) * 64

\* What SquareNeighbourhood.run makes of one plane, for a radius of r cells.
NBResult(data, mask, r, sum_or_fraction, re_mask) ==
    [data |-> neighbourhood(data, mask, r, sum_or_fraction),
     mask |-> neighbourhood_mask(data, mask, r, re_mask)]

\* ------------------------------------------------------------- inputs
Shapes == (1..MaxRows) \X (1..MaxCols)

\* The shapes of the planes handed to SquareNeighbourhood: wide enough for a
\* window of one cell not to hold the whole plane.
NBShapes == (1..MaxRows) \X (1..NBMaxCols)

NoCell == <<0, 0>>

\* A plane with the value One on the cell hot (on every cell when hot is
\* NoCell) and 0 elsewhere, NaN on the cell nanAt, masked on the cell maskAt.
PlaneOf(shape, hot, nanAt, maskAt) ==
    [data |-> Strict([i \in 1..shape[1] |-> Strict([j \in 1..shape[2] |->
                 IF <<i, j>> = nanAt THEN NaN
                 ELSE IF hot = NoCell \/ hot = <<i, j>> THEN One ELSE 0])]),
     mask |-> Strict([i \in 1..shape[1] |-> Strict([j \in 1..shape[2] |->
                 <<i, j>> = maskAt])])]

\* The planes of a shape: a spike on the last cell or a uniform plane, with
\* no invalid cell, the first cell NaN, the first cell masked, or the first
\* cell NaN and the last cell masked.
Planes(shape) ==
    { PlaneOf(shape, hot, inv[1], inv[2]) :
        hot \in {shape, NoCell},
        inv \in { <<NoCell, NoCell>>, << <<1, 1>>, NoCell>>,
                  <<NoCell, <<1, 1>> >>, << <<1, 1>>, shape>> } }

\* The first plane and the plane of the further slices of the cubes with
\* several planes: a spike with no invalid cell followed by uniform planes
\* with the last cell masked, and a spike with the first cell NaN and the
\* last cell masked followed by planes with a spike on the first cell.
FirstPlanes(shape) ==
    { <<PlaneOf(shape, shape, NoCell, NoCell),
        PlaneOf(shape, NoCell, NoCell, shape)>>,
      <<PlaneOf(shape, shape, <<1, 1>>, shape),
        PlaneOf(shape, <<1, 1>>, NoCell, NoCell)>> }

\* The cubes of a shape: one plane of Planes, or 2..MaxSlices planes along
\* the leading dimension, the first plane of a pair of FirstPlanes followed
\* by copies of its second.
Cubes(shape) ==
    { [data |-> Strict([k \in 1..Len(ps) |-> ps[k].data]),
       mask |-> Strict([k \in 1..Len(ps) |-> ps[k].mask])] :
        ps \in { <<p>> : p \in Planes(shape) } \cup
               UNION { { <<pq[1]>> \o [k \in 1..(n - 1) |-> pq[2]] :
                            pq \in FirstPlanes(shape) } :
                       n \in 2..MaxSlices } }

\* The coverage planes of a shape: one value on the first cell, one on every
\* other cell.  A coverage cube holds the same plane at every time.
CoveragePlanes(shape) ==
    { Strict([i \in 1..shape[1] |-> Strict([j \in 1..shape[2] |->
          IF <<i, j>> = <<1, 1>> THEN a ELSE b])]) :
        a \in CoverageValues, b \in CoverageValues }

\* A plane with one value on the first cell and one on every other cell.
TwoValuePlane(shape, a, b) ==
    Strict([i \in 1..shape[1] |-> Strict([j \in 1..shape[2] |->
        IF <<i, j>> = <<1, 1>> THEN a ELSE b])])

\* The precipitation rates of a cell: none, the threshold, a rate above it,
\* and NaN.
PrecipValues == {0, min_precip_rate_mmh, One, NaN}

\* The orographic enhancement of a cell: none, less than the rate above the
\* threshold, more than it.
OEValues == {0, One \div 2, 2 * One}

\* The precipitation cubes handed to ApplyOrographicEnhancement: one to
\* MaxSlices cubes of one plane each, the same plane in each.
PrecipCubes(shape) ==
    { [data |-> Strict([n \in 1..m |-> TwoValuePlane(shape, a, b)]),
       mask |-> Strict([n \in 1..m |-> TwoValuePlane(shape, FALSE, FALSE)])] :
        m \in 1..MaxSlices, a \in PrecipValues, b \in PrecipValues }

\* The orographic enhancement cubes: one plane, valid at the time of every
\* precipitation cube.
OECubes(shape) ==
    { TwoValuePlane(shape, a, b) : a \in OEValues, b \in OEValues }

\* The coordinates a cube handed to ConcatenateCubes has besides its grid.
CoordNames == {"time", "forecast_period"}

\* The cubes handed to ConcatenateCubes: their coordinates, which of them
\* are dimensions, and which are associated with the master dimension.
CubesToConcatenate ==
    { c \in [coords : SUBSET CoordNames, dim_coords : {{}, {"time"}},
             associated : {{}}] : c.dim_coords \subseteq c.coords }

\* cubes_in: a single Cube, or a CubeList of 1..MaxCubes cubes, the further
\* cubes alike.
CubesIn ==
    { <<"Cube", <<c>> >> : c \in CubesToConcatenate } \cup
    { <<"CubeList", <<c>> \o [i \in 1..(n - 1) |-> d]>> :
        c \in CubesToConcatenate, d \in CubesToConcatenate, n \in 1..MaxCubes }

\* The coords_to_associate given to ConcatenateCubes.
CoordsToAssociate ==
    { NoCoords,
      [given |-> TRUE, names |-> {"forecast_period"}],
      [given |-> TRUE, names |-> {"forecast_period", "forecast_reference_time"}] }

\* The least side of a radar plane: one 9x9 neighbourhood.
MinSide == 2 * find_speckle_r + 1

\* The shapes of the radar planes handed to FillRadarHoles.
RadarShapes == (MinSide..MaxSide) \X (MinSide..MaxSide)

\* A mask with one masked block of h rows and w columns, its first cell at
\* (y0, x0), cut at the end of the plane.
BlockMask(shape, y0, x0, h, w) ==
    Strict([y \in 1..shape[1] |-> Strict([x \in 1..shape[2] |->
        /\ y0 <= y /\ y < y0 + h
        /\ x0 <= x /\ x < x0 + w])])

\* A mask with a masked block of five rows and five columns from (3, 3),
\* but for the cell open, which is not masked: a hole of 24 pixels.
PunchedMask(shape, open) ==
    Strict([y \in 1..shape[1] |-> Strict([x \in 1..shape[2] |->
        /\ 3 <= y /\ y < 8
        /\ 3 <= x /\ x < 8
        /\ <<y, x>> # open])])

\* The masks of the radar planes: a hole of 1, 4, 5, 20, 24, 25 or 30
\* pixels, in the middle of the plane or towards its end.
RadarMasks(shape) ==
    { BlockMask(shape, y0, x0, h, w) :
        y0 \in {4, 5, 6}, x0 \in {3, 5, 6}, h \in {1, 4, 5}, w \in {1, 5, 6} }
    \cup { PunchedMask(shape, open) : open \in {<<3, 3>>, <<5, 5>>} }

\* The values of a radar plane, as handed to _interpolate_points: a ramp,
\* with a NaN on the cell nanAt.
RadarData(shape, nanAt) ==
    Strict([y \in 1..shape[1] |-> Strict([x \in 1..shape[2] |->
        IF <<y, x>> = nanAt THEN NaN ELSE (y + x) * (One \div 64)])])

\* The scalar alphas a caller gives: none, two valid ones, and invalid ones
\* on and beyond both ends of the interval.
ScalarAlphas == {None, 1, AlphaDen \div 2, 0, AlphaDen, 0 - 2, AlphaDen + 2}

\* An alpha field of a shape: alpha on the first cell, AlphaDen \div 2 on
\* the others except last on the last cell.
AlphaFieldOf(shape, first, last) ==
    Strict([i \in 1..shape[1] |-> Strict([j \in 1..shape[2] |->
        IF <<i, j>> = shape THEN last
        ELSE IF <<i, j>> = <<1, 1>> THEN first ELSE AlphaDen \div 2])])

\* The alpha fields a caller gives for a plane of a shape: none, a valid
\* one, one with a cell equal to 1, one with a cell equal to 0, and one of
\* another shape.
AlphaFields(shape) ==
    { <<>>,
      AlphaFieldOf(shape, 1, 1),
      AlphaFieldOf(shape, 1, AlphaDen),
      AlphaFieldOf(shape, 1, 0),
      Full(shape[1], shape[2] + 1, AlphaDen \div 2) }

\* The pairs of alpha fields a caller gives process: none or a valid field
\* for one direction, any of the alpha fields for the other.
AlphaFieldPairs(shape) ==
    { pr \in AlphaFields(shape) \X AlphaFields(shape) :
        \/ pr[1] \in {<<>>, AlphaFieldOf(shape, 1, 1)}
        \/ pr[2] \in {<<>>, AlphaFieldOf(shape, 1, 1)} }

\* ------------------------------------------------------------- state
VARIABLES
    op,      \* the call being made: "idle", "RecursiveFilter",
             \* "SquareNeighbourhood", "pad_cube_with_halo",
             \* "ExtendRadarMask" or "ApplyOrographicEnhancement"
    pc,      \* the step the call has reached
    cube,    \* the caller's field: its data and its mask, plane by plane
    plugin,  \* the options the plugin was constructed with
    args,    \* the other arguments of the call
    alphas,  \* the alpha fields set_alphas returned, for x and for y
    k,       \* the number of the plane being processed
    it,      \* the iterations done on the plane being processed
    work,    \* the working copy of the plane being processed
    out,     \* the planes of the result made so far
    err,     \* the message of the error raised, "" when none
    log      \* the routines that have run, in order ("pad_alphas" is
             \* pad_cube_with_halo on an alpha field)

vars == <<op, pc, cube, plugin, args, alphas, k, it, work, out, err, log>>

NoCube == [data |-> <<>>, mask |-> <<>>]

NoPlugin ==
    [alpha_x |-> None, alpha_y |-> None, iterations |-> None,
     edge_width |-> None, sum_or_fraction |-> "", re_mask |-> FALSE,
     operation |-> "", master_coord |-> "", coords_to_associate |-> NoCoords]

NoArgs ==
    [alpha_x |-> None, alpha_y |-> None, iterations |-> None,
     edge_width |-> None, sum_or_fraction |-> "", re_mask |-> FALSE,
     alphas_x |-> <<>>, alphas_y |-> <<>>, radius |-> None,
     width_x |-> None, width_y |-> None,
     coverage |-> <<>>, coords_match |-> TRUE,
     operation |-> "", orographic_enhancement_cube |-> <<>>,
     master_coord |-> "", coords_to_associate |-> NoCoords,
     form |-> "", cubes_in |-> <<>>]

Init ==
    /\ op = "idle"
    /\ pc = "idle"
    /\ cube = NoCube
    /\ plugin = NoPlugin
    /\ args = NoArgs
    /\ alphas = [x |-> <<>>, y |-> <<>>]
    /\ k = 0
    /\ it = 0
    /\ work = <<>>
    /\ out = NoCube
    /\ err = ""
    /\ log = <<>>

\* The call ends with the error e raised: nothing else changes.
Raise(e) ==
    /\ pc' = "error"
    /\ err' = e

\* Faulty variant of slices: every plane comes with the mask of the first.
slices_mask_of_first(c, n) == [data |-> c.data[n], mask |-> c.mask[1]]

\* cube.slices over the y and x axes: the n-th plane of a cube.
slices(c, n) == [data |-> c.data[n], mask |-> c.mask[n]]

\* The shape of the planes of the caller's cube, and their number.
PlaneShape == Shape(cube.data[1])
NumPlanes == Len(cube.data)

\* --------------------------------------------- RecursiveFilter: construction
RFConstruct ==
    /\ op = "idle"
    /\ op' = "RecursiveFilter"
    /\ \E alpha_x \in ScalarAlphas, alpha_y \in ScalarAlphas,
          iterations \in 0..MaxIter, edge_width \in 0..MaxEdge :
          LET e == RecursiveFilterInit(alpha_x, alpha_y, iterations, edge_width)
          IN  /\ args' = [args EXCEPT !.alpha_x = alpha_x,
                              !.alpha_y = alpha_y,
                              !.iterations = iterations,
                              !.edge_width = edge_width]
              /\ IF e # ""
                     THEN Raise(e) /\ UNCHANGED plugin
                     ELSE /\ plugin' = [plugin EXCEPT !.alpha_x = alpha_x,
                                            !.alpha_y = alpha_y,
                                            !.iterations = iterations,
                                            !.edge_width = edge_width]
                          /\ pc' = "constructed"
                          /\ err' = ""
    /\ log' = Append(log, "__init__")
    /\ UNCHANGED <<cube, alphas, k, it, work, out>>

\* --------------------------------------------- RecursiveFilter.process
\* The caller hands process a cube and, for each direction, an alpha field
\* or none.
RFProcess ==
    /\ op = "RecursiveFilter" /\ pc = "constructed"
    /\ \E shape \in Shapes :
         \E c \in Cubes(shape), fs \in AlphaFieldPairs(shape) :
            /\ cube' = c
            /\ args' = [args EXCEPT !.alphas_x = fs[1], !.alphas_y = fs[2]]
    /\ pc' = "set_alphas_x"
    /\ log' = Append(log, "process")
    /\ UNCHANGED <<op, plugin, alphas, k, it, work, out, err>>

\* alphas_x = self.set_alphas(cube_format, self.alpha_x, alphas_x)
RFSetAlphasX ==
    /\ op = "RecursiveFilter" /\ pc = "set_alphas_x"
    /\ LET e == set_alphas_error(PlaneShape, plugin.alpha_x, args.alphas_x)
       IN  IF e # ""
               THEN /\ Raise(e)
                    /\ log' = Append(log, "set_alphas")
                    /\ UNCHANGED alphas
               ELSE /\ alphas' = [alphas EXCEPT !.x =
                          set_alphas(PlaneShape, plugin.alpha_x,
                                     args.alphas_x, plugin.edge_width)]
                    /\ log' = log \o (IF args.alphas_x = <<>>
                                          THEN <<"set_alphas">>
                                          ELSE <<"set_alphas", "pad_alphas">>)
                    /\ pc' = "set_alphas_y"
                    /\ err' = ""
    /\ UNCHANGED <<op, cube, plugin, args, k, it, work, out>>

\* alphas_y = self.set_alphas(cube_format, self.alpha_y, alphas_y)
RFSetAlphasY ==
    /\ op = "RecursiveFilter" /\ pc = "set_alphas_y"
    /\ LET e == set_alphas_error(PlaneShape, plugin.alpha_y, args.alphas_y)
       IN  IF e # ""
               THEN /\ Raise(e)
                    /\ log' = Append(log, "set_alphas")
                    /\ UNCHANGED <<alphas, k>>
               ELSE /\ alphas' = [alphas EXCEPT !.y =
                          set_alphas(PlaneShape, plugin.alpha_y,
                                     args.alphas_y, plugin.edge_width)]
                    /\ log' = log \o (IF args.alphas_y = <<>>
                                          THEN <<"set_alphas">>
                                          ELSE <<"set_alphas", "pad_alphas">>)
                    /\ pc' = "set_up"
                    /\ k' = 1
                    /\ err' = ""
    /\ UNCHANGED <<op, cube, plugin, args, it, work, out>>

\* Faulty variant of RFSetUp: the invalid cells are set to 0 in the caller's
\* cube itself.
RFSetUpInPlace ==
    /\ op = "RecursiveFilter" /\ pc = "set_up"
    /\ work' = set_up_data(slices(cube, k).data, slices(cube, k).mask)
    /\ cube' = [cube EXCEPT !.data[k] = work']
    /\ pc' = "pad"
    /\ log' = Append(log, "set_up")
    /\ UNCHANGED <<op, plugin, args, alphas, k, it, out, err>>

\* The next plane of the cube is taken, its invalid cells set to 0.
RFSetUp ==
    /\ op = "RecursiveFilter" /\ pc = "set_up"
    /\ work' = set_up_data(slices(cube, k).data, slices(cube, k).mask)
    /\ pc' = "pad"
    /\ log' = Append(log, "set_up")
    /\ UNCHANGED <<op, cube, plugin, args, alphas, k, it, out, err>>

\* padded_cube = pad_cube_with_halo(output, self.edge_width, self.edge_width)
RFPad ==
    /\ op = "RecursiveFilter" /\ pc = "pad"
    /\ work' = pad_cube_with_halo(work, plugin.edge_width, plugin.edge_width)
    /\ it' = 0
    /\ pc' = "forward_x"
    /\ log' = Append(log, "pad_cube_with_halo")
    /\ UNCHANGED <<op, cube, plugin, args, alphas, k, out, err>>

\* run_recursion, pass by pass.
RFForwardX ==
    /\ op = "RecursiveFilter" /\ pc = "forward_x"
    /\ work' = recurse_forward(work, alphas.x, x_index)
    /\ pc' = "backward_x"
    /\ log' = Append(log, "recurse_forward_x")
    /\ UNCHANGED <<op, cube, plugin, args, alphas, k, it, out, err>>

RFBackwardX ==
    /\ op = "RecursiveFilter" /\ pc = "backward_x"
    /\ work' = recurse_backward(work, alphas.x, x_index)
    /\ pc' = "forward_y"
    /\ log' = Append(log, "recurse_backward_x")
    /\ UNCHANGED <<op, cube, plugin, args, alphas, k, it, out, err>>

RFForwardY ==
    /\ op = "RecursiveFilter" /\ pc = "forward_y"
    /\ work' = recurse_forward(work, alphas.y, y_index)
    /\ pc' = "backward_y"
    /\ log' = Append(log, "recurse_forward_y")
    /\ UNCHANGED <<op, cube, plugin, args, alphas, k, it, out, err>>

\* Faulty variant of RFBackwardY: the halo is taken off after the first
\* iteration, however many are asked for.
RFBackwardYOnce ==
    /\ op = "RecursiveFilter" /\ pc = "backward_y"
    /\ work' = recurse_backward(work, alphas.y, y_index)
    /\ it' = it + 1
    /\ pc' = "strip"
    /\ log' = Append(log, "recurse_backward_y")
    /\ UNCHANGED <<op, cube, plugin, args, alphas, k, out, err>>

RFBackwardY ==
    /\ op = "RecursiveFilter" /\ pc = "backward_y"
    /\ work' = recurse_backward(work, alphas.y, y_index)
    /\ it' = it + 1
    /\ pc' = IF it + 1 < plugin.iterations THEN "forward_x" ELSE "strip"
    /\ log' = Append(log, "recurse_backward_y")
    /\ UNCHANGED <<op, cube, plugin, args, alphas, k, out, err>>

\* Faulty variant of RFStrip: the smoothed values are divided by the
\* smoothed weights as the halo is taken off.
RFStripNormalised ==
    /\ op = "RecursiveFilter" /\ pc = "strip"
    /\ LET v == strip_halo(work, plugin.edge_width, plugin.edge_width)
           w == SmoothedWeight(slices(cube, k).data, slices(cube, k).mask,
                    alphas.x, alphas.y, plugin.iterations, plugin.edge_width)
       IN  work' = Strict([i \in 1..Len(v) |-> Strict([j \in 1..Len(v[1]) |->
                       Normalised(v[i][j], w[i][j])])])
    /\ pc' = "re_mask"
    /\ log' = Append(log, "strip_halo")
    /\ UNCHANGED <<op, cube, plugin, args, alphas, k, it, out, err>>

\* The halo is taken off the smoothed plane.
RFStrip ==
    /\ op = "RecursiveFilter" /\ pc = "strip"
    /\ work' = strip_halo(work, plugin.edge_width, plugin.edge_width)
    /\ pc' = "re_mask"
    /\ log' = Append(log, "strip_halo")
    /\ UNCHANGED <<op, cube, plugin, args, alphas, k, it, out, err>>

\* The mask is put back and the plane joins the result; the next plane
\* follows, or the planes are merged and returned.
RFReMask ==
    /\ op = "RecursiveFilter" /\ pc = "re_mask"
    /\ out' = [data |-> Append(out.data, work),
               mask |-> Append(out.mask,
                               re_apply_mask(slices(cube, k).data,
                                             slices(cube, k).mask))]
    /\ work' = <<>>
    /\ k' = k + 1
    /\ pc' = IF k < NumPlanes THEN "set_up" ELSE "done"
    /\ log' = Append(log, "re_mask")
    /\ UNCHANGED <<op, cube, plugin, args, alphas, it, err>>

\* --------------------------------------------- SquareNeighbourhood
NBConstruct ==
    /\ op = "idle"
    /\ op' = "SquareNeighbourhood"
    /\ \E sum_or_fraction \in {"sum", "fraction", "nonsense"},
          re_mask \in BOOLEAN :
          LET e == SquareNeighbourhoodInit(sum_or_fraction)
          IN  /\ args' = [args EXCEPT !.sum_or_fraction = sum_or_fraction,
                              !.re_mask = re_mask]
              /\ IF e # ""
                     THEN Raise(e) /\ UNCHANGED plugin
                     ELSE /\ plugin' = [plugin EXCEPT
                                            !.sum_or_fraction = sum_or_fraction,
                                            !.re_mask = re_mask]
                          /\ pc' = "constructed"
                          /\ err' = ""
    /\ log' = Append(log, "__init__")
    /\ UNCHANGED <<cube, alphas, k, it, work, out>>

\* SquareNeighbourhood.run(cube, radius): the radius is turned into grid
\* cells first, which raises when it gives no cell.
NBRun ==
    /\ op = "SquareNeighbourhood" /\ pc = "constructed"
    /\ \E shape \in NBShapes : \E c \in Cubes(shape), radius \in Radii :
          /\ cube' = c
          /\ args' = [args EXCEPT !.radius = radius]
          /\ IF RadiusError(radius) # ""
                 THEN Raise(RadiusError(radius)) /\ UNCHANGED k
                 ELSE pc' = "average" /\ k' = 1 /\ err' = ""
    /\ log' = Append(log, "run")
    /\ UNCHANGED <<op, plugin, alphas, it, work, out>>

\* The window averages of the next plane.
NBAverage ==
    /\ op = "SquareNeighbourhood" /\ pc = "average"
    /\ work' = neighbourhood(slices(cube, k).data, slices(cube, k).mask,
                   distance_to_number_of_grid_cells(args.radius),
                   plugin.sum_or_fraction)
    /\ pc' = "re_mask"
    /\ log' = Append(log, "neighbourhood")
    /\ UNCHANGED <<op, cube, plugin, args, alphas, k, it, out, err>>

\* The plane is re-masked and joins the result.
NBReMask ==
    /\ op = "SquareNeighbourhood" /\ pc = "re_mask"
    /\ out' = [data |-> Append(out.data, work),
               mask |-> Append(out.mask,
                               neighbourhood_mask(slices(cube, k).data,
                                   slices(cube, k).mask,
                                   distance_to_number_of_grid_cells(args.radius),
                                   plugin.re_mask))]
    /\ work' = <<>>
    /\ k' = k + 1
    /\ pc' = IF k < NumPlanes THEN "average" ELSE "done"
    /\ log' = Append(log, "re_mask")
    /\ UNCHANGED <<op, cube, plugin, args, alphas, it, err>>

\* --------------------------------------------- the halo on its own
\* The check of the halo widths: the error message, or "".
HaloError(width_x, width_y) ==
    IF width_x < 1 \/ width_y < 1 THEN "Invalid halo width: must be >= 1"
    ELSE ""

\* pad_cube_with_halo(plane, width_x, width_y), called by itself.
PadCall ==
    /\ op = "idle"
    /\ op' = "pad_cube_with_halo"
    /\ \E shape \in Shapes : \E p \in Planes(shape),
          width_x \in 0..MaxHalo, width_y \in 0..MaxHalo :
          /\ cube' = [data |-> <<p.data>>, mask |-> <<p.mask>>]
          /\ args' = [args EXCEPT !.width_x = width_x, !.width_y = width_y]
          /\ IF HaloError(width_x, width_y) # ""
                 THEN Raise(HaloError(width_x, width_y)) /\ UNCHANGED work
                 ELSE /\ work' = pad_cube_with_halo(p.data, width_x, width_y)
                      /\ pc' = "padded"
                      /\ err' = ""
    /\ log' = Append(log, "pad_cube_with_halo")
    /\ UNCHANGED <<plugin, alphas, k, it, out>>

\* The halo is taken off again, with the widths it was put on with.
StripCall ==
    /\ op = "pad_cube_with_halo" /\ pc = "padded"
    /\ out' = [data |-> <<strip_halo(work, args.width_x, args.width_y)>>,
               mask |-> <<cube.mask[1]>>]
    /\ pc' = "done"
    /\ log' = Append(log, "strip_halo")
    /\ UNCHANGED <<op, cube, plugin, args, alphas, k, it, work, err>>

\* --------------------------------------------- ExtendRadarMask.process
\* process(radar_data, coverage): the coordinates of the two cubes are
\* compared first, which raises when one differs.
ERMProcess ==
    /\ op = "idle"
    /\ op' = "ExtendRadarMask"
    /\ \E shape \in Shapes : \E c \in Cubes(shape),
          cov \in CoveragePlanes(shape), coords_match \in BOOLEAN :
          /\ cube' = c
          /\ args' = [args EXCEPT
                          !.coverage = Strict([n \in 1..Len(c.data) |-> cov]),
                          !.coords_match = coords_match]
          /\ IF ~coords_match
                 THEN Raise("Rain rate and coverage composites unmatched")
                      /\ UNCHANGED k
                 ELSE pc' = "remask" /\ k' = 1 /\ err' = ""
    /\ log' = Append(log, "process")
    /\ UNCHANGED <<plugin, alphas, it, work, out>>

\* One pass of the loop over the slices: the slice is remasked and joins
\* the list; after the last slice the list is merged and returned.
ERMRemask ==
    /\ op = "ExtendRadarMask" /\ pc = "remask"
    /\ LET r == remasked_data(slices(cube, k), args.coverage[k])
       IN  out' = [data |-> Append(out.data, r.data),
                   mask |-> Append(out.mask, r.mask)]
    /\ k' = k + 1
    /\ pc' = IF k < NumPlanes THEN "remask" ELSE "done"
    /\ log' = Append(log, "remask")
    /\ UNCHANGED <<op, cube, plugin, args, alphas, it, work, err>>

\* ------------------------------------------- ApplyOrographicEnhancement
\* __init__(operation): the operation is stored.
AOEConstruct ==
    /\ op = "idle"
    /\ op' = "ApplyOrographicEnhancement"
    /\ \E operation \in {"add", "subtract", "multiply"} :
          LET e == ApplyOrographicEnhancementInit(operation)
          IN  /\ args' = [args EXCEPT !.operation = operation]
              /\ IF e # ""
                     THEN Raise(e) /\ UNCHANGED plugin
                     ELSE /\ plugin' = [plugin EXCEPT !.operation = operation]
                          /\ pc' = "constructed"
                          /\ err' = ""
    /\ log' = Append(log, "__init__")
    /\ UNCHANGED <<cube, alphas, k, it, work, out>>

\* process(precip_cubes, orographic_enhancement_cube): the loop over the
\* precipitation cubes starts.
AOEProcess ==
    /\ op = "ApplyOrographicEnhancement" /\ pc = "constructed"
    /\ \E shape \in Shapes : \E c \in PrecipCubes(shape), oe \in OECubes(shape) :
          /\ cube' = c
          /\ args' = [args EXCEPT !.orographic_enhancement_cube = oe]
    /\ k' = 1
    /\ pc' = "select"
    /\ log' = Append(log, "process")
    /\ UNCHANGED <<op, plugin, alphas, it, work, out, err>>

\* _select_orographic_enhancement_cube(precip_cube,
\* orographic_enhancement_cube.copy()): the enhancement at the time of the
\* precipitation cube, taken from a copy of the caller's cube.
AOESelect ==
    /\ op = "ApplyOrographicEnhancement" /\ pc = "select"
    /\ work' = args.orographic_enhancement_cube
    /\ pc' = "apply"
    /\ log' = Append(log, "_select_orographic_enhancement_cube")
    /\ UNCHANGED <<op, cube, plugin, args, alphas, k, it, out, err>>

\* _apply_orographic_enhancement(precip_cube, oe_cube): the enhancement is
\* set to zero below the threshold, the precipitation cube is copied, and
\* then the operation is examined: the two are combined, or the error is
\* raised.
AOEApply ==
    /\ op = "ApplyOrographicEnhancement" /\ pc = "apply"
    /\ work' = zero_below_threshold(work, cube.data[k])
    /\ LET e == apply_orographic_enhancement_error(plugin.operation)
       IN  IF e # ""
              THEN Raise(e) /\ UNCHANGED out
              ELSE /\ out' = [data |-> Append(out.data,
                                     apply_orographic_enhancement(
                                         plugin.operation, cube.data[k], work')),
                              mask |-> Append(out.mask, cube.mask[k])]
                   /\ pc' = "minimum"
                   /\ err' = ""
    /\ log' = Append(log, "_apply_orographic_enhancement")
    /\ UNCHANGED <<op, cube, plugin, args, alphas, k, it>>

\* _apply_minimum_precip_rate(precip_cube, cube), and the cube joins the
\* list; after the last precipitation cube the list is returned.
AOEMinimum ==
    /\ op = "ApplyOrographicEnhancement" /\ pc = "minimum"
    /\ out' = [out EXCEPT !.data[k] =
                   apply_minimum_precip_rate(plugin.operation, cube.data[k], @)]
    /\ k' = k + 1
    /\ pc' = IF k < NumPlanes THEN "select" ELSE "done"
    /\ log' = Append(log, "_apply_minimum_precip_rate")
    /\ UNCHANGED <<op, cube, plugin, args, alphas, it, work, err>>

\* --------------------------------------------- ConcatenateCubes
\* __init__(master_coord, coords_to_associate)
CCConstruct ==
    /\ op = "idle"
    /\ op' = "ConcatenateCubes"
    /\ \E master_coord \in {"time", "forecast_reference_time"},
          coords_to_associate \in CoordsToAssociate :
          LET e == ConcatenateCubesInit(master_coord, coords_to_associate)
          IN  /\ args' = [args EXCEPT !.master_coord = master_coord,
                              !.coords_to_associate = coords_to_associate]
              /\ IF e # ""
                     THEN Raise(e) /\ UNCHANGED plugin
                     ELSE /\ plugin' = [plugin EXCEPT
                                 !.master_coord = master_coord,
                                 !.coords_to_associate =
                                     coords_to_associate_default(
                                         master_coord, coords_to_associate)]
                          /\ pc' = "constructed"
                          /\ err' = ""
    /\ log' = Append(log, "__init__")
    /\ UNCHANGED <<cube, alphas, k, it, work, out>>

\* process(cubes_in) up to the search for the master coordinate: a single
\* Cube and the cube of a list of one are returned as they are; the cubes of
\* a longer list are copied, and the error is raised when one of them has
\* no master coordinate.
CCProcess ==
    /\ op = "ConcatenateCubes" /\ pc = "constructed"
    /\ \E ci \in CubesIn :
          LET e == process_error(ci[1], plugin.master_coord, ci[2])
          IN  /\ args' = [args EXCEPT !.form = ci[1], !.cubes_in = ci[2]]
              /\ IF e # ""
                     THEN Raise(e) /\ UNCHANGED work
                     ELSE IF returned_unchanged(ci[1], ci[2])
                         THEN pc' = "done" /\ err' = "" /\ work' = <<ci[2][1]>>
                         ELSE pc' = "associate" /\ err' = "" /\ work' = ci[2]
    /\ log' = Append(log, "process")
    /\ UNCHANGED <<op, cube, plugin, alphas, k, it, out>>

\* The rest of process: each copy has its coordinates associated with the
\* master coordinate, and the copies are concatenated.
CCConcatenate ==
    /\ op = "ConcatenateCubes" /\ pc = "associate"
    /\ work' = Strict([i \in 1..Len(work) |->
                   associate_any_coordinate_with_master_coordinate(
                       plugin.master_coord, plugin.coords_to_associate,
                       work[i])])
    /\ pc' = "done"
    /\ log' = Append(log, "concatenate_cube")
    /\ UNCHANGED <<op, cube, plugin, args, alphas, k, it, out, err>>

\* --------------------------------------------- FillRadarHoles
\* speckle = self._find_speckle(masked_radar.mask)
FRHFindSpeckle ==
    /\ op = "idle"
    /\ op' = "FillRadarHoles"
    /\ \E shape \in RadarShapes : \E mask \in RadarMasks(shape),
          nanAt \in {NoCell, <<3, 4>>} :
          /\ cube' = [data |-> <<RadarData(shape, nanAt)>>, mask |-> <<mask>>]
          /\ work' = find_speckle(mask)
    /\ pc' = "interpolate"
    /\ log' = Append(log, "_find_speckle")
    /\ UNCHANGED <<plugin, args, alphas, k, it, out, err>>

\* self._interpolate_points(data, speckle)
FRHInterpolate ==
    /\ op = "FillRadarHoles" /\ pc = "interpolate"
    /\ LET r == interpolate_points(cube.data[1], cube.mask[1], work)
       IN  out' = [data |-> <<r.data>>, mask |-> <<r.mask>>]
    /\ pc' = "done"
    /\ log' = Append(log, "_interpolate_points")
    /\ UNCHANGED <<op, cube, plugin, args, alphas, k, it, work, err>>

\* ------------------------------------------------------------- specification
Next ==
    \/ RFConstruct
    \/ RFProcess
    \/ RFSetAlphasX
    \/ RFSetAlphasY
    \/ RFSetUp
    \/ RFPad
    \/ RFForwardX
    \/ RFBackwardX
    \/ RFForwardY
    \/ RFBackwardY
    \/ RFStrip
    \/ RFReMask
    \/ NBConstruct
    \/ NBRun
    \/ NBAverage
    \/ NBReMask
    \/ PadCall
    \/ StripCall
    \/ ERMProcess
    \/ ERMRemask
    \/ AOEConstruct
    \/ AOEProcess
    \/ AOESelect
    \/ AOEApply
    \/ AOEMinimum
    \/ CCConstruct
    \/ CCProcess
    \/ CCConcatenate
    \/ FRHFindSpeckle
    \/ FRHInterpolate

Spec == Init /\ [][Next]_vars

\* ------------------------------------------------------------- claims
RF == op = "RecursiveFilter"
NB == op = "SquareNeighbourhood"
PAD == op = "pad_cube_with_halo"

CellsOf(p) == (1..Len(p)) \X (1..Len(p[1]))

\* C1: every cell that is masked in the input of the recursive filter is
\* masked in its output, and every unmasked cell that holds a finite value
\* is unmasked in the output; this holds of every plane already in the result.
C1_MaskKept ==
    RF => \A n \in 1..Len(out.mask) :
            /\ Shape(out.mask[n]) = Shape(cube.mask[n])
            /\ \A c \in CellsOf(cube.mask[n]) :
                 /\ cube.mask[n][c[1]][c[2]] => out.mask[n][c[1]][c[2]]
                 /\ (~cube.mask[n][c[1]][c[2]] /\ ~isnan(cube.data[n][c[1]][c[2]]))
                        => ~out.mask[n][c[1]][c[2]]

\* A finished run on a plane with a masked cell, a NaN cell and a finite
\* unmasked cell.
C1_Witness ==
    /\ RF /\ pc = "done"
    /\ \E c \in CellsOf(cube.mask[1]) : cube.mask[1][c[1]][c[2]]
    /\ \E c \in CellsOf(cube.mask[1]) : isnan(cube.data[1][c[1]][c[2]])
    /\ \E c \in CellsOf(cube.mask[1]) :
          /\ ~cube.mask[1][c[1]][c[2]] /\ cube.data[1][c[1]][c[2]] = One
          /\ ~out.mask[1][c[1]][c[2]]

\* C2: the result of the recursive filter has the shape of its input: as
\* many planes, and each plane of the shape of the input's plane.
C2_ShapeKept ==
    (RF /\ pc = "done") =>
        /\ Len(out.data) = Len(cube.data)
        /\ Len(out.mask) = Len(cube.data)
        /\ \A n \in 1..Len(cube.data) :
             /\ Shape(out.data[n]) = Shape(cube.data[n])
             /\ Shape(out.mask[n]) = Shape(cube.data[n])

\* A finished run of two iterations on a cube of two planes that are not
\* square, with an alpha field for x and a scalar alpha for y.
C2_Witness ==
    /\ RF /\ pc = "done"
    /\ Len(cube.data) = 2 /\ Len(out.data) = 2
    /\ Shape(cube.data[1]) = <<1, 2>>
    /\ plugin.iterations = 2
    /\ args.alphas_x # <<>> /\ args.alphas_y = <<>>

\* The shape of a plane of the given shape with a halo of n cells for each
\* unit of width on each side.
PaddedShape(shape, n, width_x, width_y) ==
    <<shape[1] + 2 * n * width_y, shape[2] + 2 * n * width_x>>

\* C3 as stated: pad_cube_with_halo on a plane of shape (rows, cols) with
\* the halo sizes (h_y, h_x) gives a plane of shape (rows + 2 h_y, cols + 2 h_x).
C3_Original ==
    (PAD /\ pc = "padded") =>
        Shape(work) = PaddedShape(PlaneShape, 1, args.width_x, args.width_y)

\* C3 as amended: pad_cube_with_halo gives a plane of shape (rows + 4 h_y,
\* cols + 4 h_x), and in the recursive filter the padded data plane and the
\* two alpha fields set_alphas returned have the same shape.
C3_PaddedShape ==
    /\ (PAD /\ pc \in {"padded", "done"}) =>
          Shape(work) = PaddedShape(PlaneShape, 2, args.width_x, args.width_y)
    /\ (RF /\ pc \in {"forward_x", "backward_x", "forward_y", "backward_y",
                      "strip"}) =>
          /\ Shape(work) = PaddedShape(PlaneShape, 2, plugin.edge_width,
                                       plugin.edge_width)
          /\ Shape(alphas.x) = Shape(work)
          /\ Shape(alphas.y) = Shape(work)

\* A plane that is not square, padded with different halo widths for x and y.
C3_Witness ==
    /\ PAD /\ pc = "padded"
    /\ PlaneShape = <<1, 2>>
    /\ args.width_x = 1 /\ args.width_y = 2
    /\ Shape(work) = <<9, 6>>

\* C4: taking the halo off a padded plane, with the widths it was padded
\* with, gives the plane that was padded, cell for cell; and the plane that
\* was padded is not changed by the padding or by taking the halo off.
C4_RoundTrip ==
    /\ []((PAD /\ pc = "done") => out.data[1] = cube.data[1])
    /\ [][PAD => cube' = cube]_vars

\* A plane with a spike and a NaN cell that went through the round trip.
C4_Witness ==
    /\ PAD /\ pc = "done"
    /\ PlaneShape = <<2, 2>>
    /\ isnan(cube.data[1][1][1]) /\ cube.data[1][2][2] = One
    /\ cube.data[1][1][2] = 0
    /\ out.data[1] = cube.data[1]

\* The call was refused when the plugin was constructed.
RefusedAtConstruction == pc = "error" /\ log = <<"__init__">>

\* set_alphas has been called for x, and for y after it.
SetAlphasCalls == Cardinality({i \in DOMAIN log : log[i] = "set_alphas"})
PastSetAlphasX == SetAlphasCalls >= 1
PastSetAlphasY == SetAlphasCalls >= 2

\* C5: a scalar alpha_x or alpha_y that is not strictly between 0 and 1 is
\* refused when the filter is constructed, the values 0 and 1 included; an
\* alpha that is None is taken at construction; and a field of alphas with a
\* cell that is not strictly between 0 and 1 is refused by set_alphas.
C5_AlphaRange ==
    RF =>
      /\ ((args.alpha_x # None /\ ~(0 < args.alpha_x /\ args.alpha_x < AlphaDen))
          \/ (args.alpha_y # None /\ ~(0 < args.alpha_y /\ args.alpha_y < AlphaDen)))
            => RefusedAtConstruction
      /\ (/\ args.alpha_x = None \/ (0 < args.alpha_x /\ args.alpha_x < AlphaDen)
          /\ args.alpha_y = None \/ (0 < args.alpha_y /\ args.alpha_y < AlphaDen)
          /\ args.iterations >= 1 /\ args.edge_width >= 1)
            => ~RefusedAtConstruction
      /\ (PastSetAlphasX /\ args.alphas_x # <<>>
          /\ \E c \in CellsOf(args.alphas_x) :
                ~(0 < args.alphas_x[c[1]][c[2]] /\ args.alphas_x[c[1]][c[2]] < AlphaDen))
            => pc = "error" /\ alphas.x = <<>>
      /\ (PastSetAlphasY /\ args.alphas_y # <<>>
          /\ \E c \in CellsOf(args.alphas_y) :
                ~(0 < args.alphas_y[c[1]][c[2]] /\ args.alphas_y[c[1]][c[2]] < AlphaDen))
            => pc = "error" /\ alphas.y = <<>>

\* The construction was refused for alpha_x = 1, alpha_y being None.
C5_Witness ==
    /\ RF /\ RefusedAtConstruction
    /\ args.alpha_x = AlphaDen /\ args.alpha_y = None
    /\ args.iterations = 1 /\ args.edge_width = 1
    /\ err = "Invalid alpha_x: must be > 0 and < 1"

\* Both a scalar and a field, or neither, is given to set_alphas.
NotExactlyOne(alpha, alphas_cube) ==
    (alpha # None /\ alphas_cube # <<>>) \/ (alpha = None /\ alphas_cube = <<>>)

\* C6: for each direction set_alphas raises when both a scalar alpha and a
\* field of alphas are given and when neither is given, and then returns no
\* alpha field.
C6_ExactlyOne ==
    RF =>
      /\ (PastSetAlphasX /\ NotExactlyOne(plugin.alpha_x, args.alphas_x))
            => pc = "error" /\ alphas.x = <<>>
      /\ (PastSetAlphasY /\ NotExactlyOne(plugin.alpha_y, args.alphas_y))
            => pc = "error" /\ alphas.y = <<>>

\* set_alphas raised for y, given both a scalar and a field, after it
\* returned an alpha field for x.
C6_Witness ==
    /\ RF /\ pc = "error"
    /\ plugin.alpha_y # None /\ args.alphas_y # <<>>
    /\ alphas.x # <<>> /\ alphas.y = <<>>
    /\ err = "A cube of alpha values and a single float value for alpha have both been provided"

\* C7: a field of alphas whose shape is not the shape of the data plane
\* makes set_alphas raise: no alpha field is made of it.
C7_ShapeMismatch ==
    RF =>
      /\ (PastSetAlphasX /\ args.alphas_x # <<>>
          /\ Shape(args.alphas_x) # PlaneShape)
            => pc = "error" /\ alphas.x = <<>>
      /\ (PastSetAlphasY /\ args.alphas_y # <<>>
          /\ Shape(args.alphas_y) # PlaneShape)
            => pc = "error" /\ alphas.y = <<>>

\* set_alphas raised for x on a field with one column more than the data.
C7_Witness ==
    /\ RF /\ pc = "error"
    /\ plugin.alpha_x = None /\ args.alphas_x # <<>>
    /\ Shape(args.alphas_x) = <<PlaneShape[1], PlaneShape[2] + 1>>
    /\ alphas.x = <<>>
    /\ err = "Dimensions of alphas array do not match dimensions of data array"

\* C8: a number of iterations below 1 or an edge width below 1 is refused
\* when the filter is constructed: no plugin is made, with those values or
\* with others in their place.
C8_IterationsEdgeWidth ==
    (RF /\ (args.iterations < 1 \/ args.edge_width < 1)) =>
        /\ RefusedAtConstruction
        /\ plugin = NoPlugin

\* The construction was refused for 0 iterations, all else being valid.
C8_Witness ==
    /\ RF /\ RefusedAtConstruction
    /\ args.iterations = 0 /\ args.edge_width = 1
    /\ args.alpha_x = 1 /\ args.alpha_y = None
    /\ err = "Invalid number of iterations: must be >= 1"

\* The steps that work on a plane of data, and those among the routines run.
DataSteps ==
    {"set_up", "pad_cube_with_halo", "recurse_forward_x", "recurse_backward_x",
     "recurse_forward_y", "recurse_backward_y", "strip_halo", "neighbourhood",
     "re_mask"}
StepsRun == {log[i] : i \in DOMAIN log}

\* The alphas given for one direction are a scalar strictly between 0 and 1
\* and no field, or no scalar and a field of the shape of the data with
\* every cell strictly between 0 and 1.
DirectionValid(alpha, alphas_cube) ==
    \/ /\ alphas_cube = <<>>
       /\ alpha # None /\ 0 < alpha /\ alpha < AlphaDen
    \/ /\ alpha = None
       /\ alphas_cube # <<>>
       /\ Shape(alphas_cube) = PlaneShape
       /\ \A c \in CellsOf(alphas_cube) :
             0 < alphas_cube[c[1]][c[2]] /\ alphas_cube[c[1]][c[2]] < AlphaDen

\* What the call was given is a valid configuration.
ConfigValid ==
    /\ RF => /\ args.iterations >= 1 /\ args.edge_width >= 1
             /\ DirectionValid(args.alpha_x, args.alphas_x)
             /\ DirectionValid(args.alpha_y, args.alphas_y)
    /\ NB => /\ args.sum_or_fraction \in {"sum", "fraction"}
             /\ args.radius >= GridSpacing

C10_InvalidOption ==
    (NB /\ args.sum_or_fraction \notin {"sum", "fraction"}) =>
        /\ RefusedAtConstruction
        /\ plugin = NoPlugin
        /\ cube = NoCube /\ out = NoCube

\* The construction was refused for the option "nonsense".
C10_Witness ==
    /\ NB /\ RefusedAtConstruction
    /\ args.sum_or_fraction = "nonsense"
    /\ cube = NoCube

\* The valid cells of the window of the cell c of the plane n of the
\* caller's cube, for a radius of r cells: on the plane, within r cells of c
\* along both axes, not masked and not NaN.
InWindow(n, c, r) ==
    { d \in CellsOf(cube.data[n]) :
        /\ d[1] - c[1] <= r /\ c[1] - d[1] <= r
        /\ d[2] - c[2] <= r /\ c[2] - d[2] <= r
        /\ ~cube.mask[n][d[1]][d[2]]
        /\ cube.data[n][d[1]][d[2]] # NaN }

\* The radius of the call, in grid cells.
CellRadius == args.radius \div GridSpacing

\* v is the mean of the valid cells of the window of c, rounded down to the
\* precision of the data.
IsWindowMean(v, n, c, r) ==
    LET total == SumCells(cube.data[n], InWindow(n, c, r))
        count == Cardinality(InWindow(n, c, r))
    IN  v * count <= total /\ total < (v + 1) * count

\* C11 as stated: in mean mode every cell whose window holds a valid cell
\* is given the mean of the valid cells of its window.
C11_Original ==
    (NB /\ args.sum_or_fraction = "fraction") =>
        \A n \in 1..Len(out.data) : \A c \in CellsOf(cube.data[n]) :
            InWindow(n, c, CellRadius) # {} =>
                IsWindowMean(out.data[n][c[1]][c[2]], n, c, CellRadius)

\* C11: in mean mode every cell that is not NaN itself and whose window
\* holds a valid cell is given the sum of the valid cells of its window (on
\* the plane, not masked, not NaN) divided by their number; this holds of a
\* masked cell too.
C11_WindowMean ==
    (NB /\ args.sum_or_fraction = "fraction") =>
        \A n \in 1..Len(out.data) : \A c \in CellsOf(cube.data[n]) :
            (InWindow(n, c, CellRadius) # {}
             /\ cube.data[n][c[1]][c[2]] # NaN) =>
                IsWindowMean(out.data[n][c[1]][c[2]], n, c, CellRadius)

\* A plane three cells wide was averaged with a radius of one cell: the
\* window of its first cell, which is masked, leaves the last cell out, the
\* only one that holds One, so the first cell is given 0.
C11_Witness ==
    /\ NB /\ pc = "done" /\ args.sum_or_fraction = "fraction"
    /\ CellRadius = 1
    /\ Shape(cube.data[1]) = <<1, 3>>
    /\ cube.mask[1][1][1]
    /\ cube.data[1][1] = <<0, 0, One>>
    /\ out.data[1][1] = <<0, One \div 2, One \div 2>>

\* The cells of the plane n of the caller's cube that are NaN and not masked.
UnmaskedNaNCells(n) ==
    { c \in CellsOf(cube.data[n]) :
        cube.data[n][c[1]][c[2]] = NaN /\ ~cube.mask[n][c[1]][c[2]] }

\* C12 as stated: an unmasked cell that is NaN itself is given a number, the
\* mean of the valid cells of its window, whenever its window holds one.
C12_Original ==
    (NB /\ args.sum_or_fraction = "fraction") =>
        \A n \in 1..Len(out.data) : \A c \in UnmaskedNaNCells(n) :
            InWindow(n, c, CellRadius) # {} =>
                /\ out.data[n][c[1]][c[2]] # NaN
                /\ IsWindowMean(out.data[n][c[1]][c[2]], n, c, CellRadius)

\* C12: in mean mode an unmasked cell that is NaN itself is given NaN,
\* whatever its window holds, while it counts in no window: a cell next
\* to it that is not NaN is given the mean of the valid cells of its own
\* window, the NaN cell left out.
C12_NaNCell ==
    (NB /\ args.sum_or_fraction = "fraction") =>
        \A n \in 1..Len(out.data) : \A c \in UnmaskedNaNCells(n) :
            /\ out.data[n][c[1]][c[2]] = NaN
            /\ \A d \in CellsOf(cube.data[n]) :
                 (InWindow(n, d, CellRadius) # {}
                  /\ cube.data[n][d[1]][d[2]] # NaN) =>
                    /\ c \notin InWindow(n, d, CellRadius)
                    /\ IsWindowMean(out.data[n][d[1]][d[2]], n, d, CellRadius)

\* A plane whose first cell is NaN and not masked, with valid cells in its
\* window, was averaged: the first cell is given NaN and the cell next to it
\* a number.
C12_Witness ==
    /\ NB /\ pc = "done" /\ args.sum_or_fraction = "fraction"
    /\ <<1, 1>> \in UnmaskedNaNCells(1)
    /\ InWindow(1, <<1, 1>>, CellRadius) # {}
    /\ Shape(cube.data[1]) = <<2, 2>>
    /\ out.data[1][1][1] = NaN
    /\ out.data[1][1][2] = One \div 3

\* The plane p with the cell c masked and holding the value v.
MaskedAt(data, mask, c, v) ==
    [data |-> [data EXCEPT ![c[1]][c[2]] = v],
     mask |-> [mask EXCEPT ![c[1]][c[2]] = TRUE]]

\* The planes a and b hold the same value and the same mask on every cell
\* but c.
SameButAt(a, b, c) ==
    /\ Shape(a.data) = Shape(b.data)
    /\ \A d \in CellsOf(a.data) \ {c} :
         /\ a.data[d[1]][d[2]] = b.data[d[1]][d[2]]
         /\ a.mask[d[1]][d[2]] = b.mask[d[1]][d[2]]

\* The first plane of the result of the finished call.
FirstOut == [data |-> out.data[1], mask |-> out.mask[1]]

\* C13: where the first plane handed to the recursive filter or to the
\* neighbourhood averaging holds a NaN on a cell c that is not masked, the
\* result is, on every cell but c, the result for the same plane with c
\* masked instead and holding a number, under the same options.
C13_NaNAsMasked ==
    (pc = "done" /\ (RF \/ NB)) =>
        \A c \in UnmaskedNaNCells(1) : \A v \in {0, One} :
            LET p == MaskedAt(cube.data[1], cube.mask[1], c, v)
            IN  /\ RF => SameButAt(FirstOut,
                             RFResult(p.data, p.mask, alphas.x, alphas.y,
                                 plugin.iterations, plugin.edge_width), c)
                /\ NB => SameButAt(FirstOut,
                             NBResult(p.data, p.mask, CellRadius,
                                 plugin.sum_or_fraction, plugin.re_mask), c)

\* The recursive filter has run on a plane whose first cell is NaN and not
\* masked, next to a cell that holds One: the filter gave that cell less than
\* One and more than 0.
C13_Witness ==
    /\ RF /\ pc = "done"
    /\ <<1, 1>> \in UnmaskedNaNCells(1)
    /\ Shape(cube.data[1]) = <<1, 2>>
    /\ cube.data[1][1][2] = One
    /\ 0 < out.data[1][1][2] /\ out.data[1][1][2] < One

\* The neighbourhood averaging has run on such a plane.
C13_WitnessNB ==
    /\ NB /\ pc = "done"
    /\ <<1, 1>> \in UnmaskedNaNCells(1)
    /\ Shape(cube.data[1]) = <<1, 2>>
    /\ out.data[1][1][2] = One

\* The cells of the plane n of the caller's cube with no valid cell in their
\* window.
NoValidCells(n) ==
    { c \in CellsOf(cube.data[n]) : InWindow(n, c, CellRadius) = {} }

OutPlane(n) == [data |-> out.data[n], mask |-> out.mask[n]]

\* C15: each plane of the result of the recursive filter and of the
\* neighbourhood averaging on a cube of several planes is what the call makes
\* of that plane of the input alone, values and mask, under the options of
\* the call: no other plane of the cube has a part in it.  It is stated of
\* the result of the finished call.
C15_PlaneAlone ==
    ((RF \/ NB) /\ pc = "done" /\ Len(cube.data) >= 2) =>
        \A n \in 1..Len(out.data) :
            /\ RF => OutPlane(n) =
                        RFResult(cube.data[n], cube.mask[n], alphas.x, alphas.y,
                                 plugin.iterations, plugin.edge_width)
            /\ NB => OutPlane(n) =
                        NBResult(cube.data[n], cube.mask[n], CellRadius,
                                 plugin.sum_or_fraction, plugin.re_mask)

\* The recursive filter has run on a cube of two planes that differ in
\* values and in mask: the first with a NaN and a masked cell, the second
\* with a value on its first cell and no invalid cell; the second plane of
\* the result has no masked cell.
C15_Witness ==
    /\ RF /\ pc = "done"
    /\ Len(cube.data) = 2 /\ Len(out.data) = 2
    /\ Shape(cube.data[1]) = <<2, 2>>
    /\ cube.data[1][1][1] = NaN /\ cube.mask[1][2][2]
    /\ cube.data[2][1][1] = One /\ ~cube.mask[2][2][2]
    /\ \A c \in CellsOf(out.mask[2]) : ~out.mask[2][c[1]][c[2]]
    /\ out.mask[1][1][1] /\ out.mask[1][2][2]

\* Every cell of the plane n of the caller's cube holds the value v, and
\* none is masked or NaN.
Uniform(n, v) ==
    /\ v # NaN
    /\ \A c \in CellsOf(cube.data[n]) :
         cube.data[n][c[1]][c[2]] = v /\ ~cube.mask[n][c[1]][c[2]]

\* C16: a plane whose cells all hold the same value v, none of them invalid,
\* comes out of the recursive filter (any alphas, iterations and edge_width)
\* and of the neighbourhood averaging in mean mode (any radius) with v on
\* every cell.
C16_UniformKept ==
    ((RF \/ (NB /\ plugin.sum_or_fraction = "fraction")) /\ cube # NoCube) =>
        \A n \in 1..Len(out.data) : \A v \in {cube.data[n][1][1]} :
            Uniform(n, v) =>
                \A c \in CellsOf(cube.data[n]) : out.data[n][c[1]][c[2]] = v

\* The recursive filter has run twice over a uniform plane of two by two
\* cells, with an alpha field for x and a scalar alpha for y.
C16_Witness ==
    /\ RF /\ pc = "done"
    /\ Shape(cube.data[1]) = <<2, 2>> /\ Uniform(1, One)
    /\ plugin.iterations = 2
    /\ args.alphas_x # <<>> /\ plugin.alpha_y = 1
    /\ out.data[1] = <<<<One, One>>, <<One, One>>>>

\* The neighbourhood averaging has run in mean mode over a uniform plane
\* wider than its window.
C16_WitnessNB ==
    /\ NB /\ pc = "done" /\ plugin.sum_or_fraction = "fraction"
    /\ Shape(cube.data[1]) = <<2, 3>> /\ Uniform(1, One)
    /\ CellRadius = 1
    /\ out.data[1][1] = <<One, One, One>>

\* The peak-to-trough range of a plane: its largest value less its smallest.
RangeOf(p) ==
    LET vals == { p[c[1]][c[2]] : c \in CellsOf(p) }
    IN  (CHOOSE hi \in vals : \A v \in vals : v <= hi)
        - (CHOOSE lo \in vals : \A v \in vals : lo <= v)

\* What the filter of the call makes of the first plane of the caller's cube
\* with the scalar a for alpha_x and alpha_y, all else as in the call.
WithAlpha(a) ==
    RFResult(cube.data[1], cube.mask[1],
             Full(Len(alphas.x), Len(alphas.x[1]), a),
             Full(Len(alphas.y), Len(alphas.y[1]), a),
             plugin.iterations, plugin.edge_width).data

\* The call is a finished run of the filter with one scalar for alpha_x and
\* alpha_y and no alpha field.
ScalarRun ==
    /\ RF /\ pc = "done"
    /\ args.alphas_x = <<>> /\ args.alphas_y = <<>>
    /\ plugin.alpha_x = plugin.alpha_y

\* C17 as stated: the range of the output for an alpha is at most the range
\* of the output for any larger alpha.
C17_Original ==
    ScalarRun =>
        \A a \in (plugin.alpha_x + 1)..(AlphaDen - 1) :
            RangeOf(out.data[1]) <= RangeOf(WithAlpha(a))

\* C17: for a plane with one raised cell or none, the output of the filter
\* for an alpha has a range at least that of the output for any larger
\* alpha, the iterations and the edge width being the same: a larger alpha
\* smooths more.
C17_LargerAlphaSmoothsMore ==
    ScalarRun =>
        \A a \in (plugin.alpha_x + 1)..(AlphaDen - 1) :
            RangeOf(WithAlpha(a)) <= RangeOf(out.data[1])

\* The filter has run once with alpha 1/AlphaDen over a plane of two by two
\* cells with a spike: the range of its output is larger than with the
\* largest alpha.
C17_Witness ==
    /\ ScalarRun /\ plugin.alpha_x = 1 /\ plugin.iterations = 1
    /\ Shape(cube.data[1]) = <<2, 2>>
    /\ cube.data[1] = <<<<0, 0>>, <<0, One>>>>
    /\ RangeOf(WithAlpha(AlphaDen - 1)) < RangeOf(out.data[1])
    /\ RangeOf(out.data[1]) < One

ERM == op = "ExtendRadarMask"

\* C19 as stated: in the output of ExtendRadarMask.process every cell that
\* is masked in the radar data is masked, and every cell whose coverage is
\* neither 1 nor 2 is masked.
C19_Original ==
    ERM => \A n \in 1..Len(out.mask) : \A c \in CellsOf(cube.mask[n]) :
             /\ cube.mask[n][c[1]][c[2]] => out.mask[n][c[1]][c[2]]
             /\ args.coverage[n][c[1]][c[2]] \notin {1, 2} =>
                    out.mask[n][c[1]][c[2]]

\* What the code does: in the output a cell is masked exactly when its
\* coverage is neither 1 nor 2, whatever the mask of the radar data, and the
\* values are those of the radar data.
C19_MaskFromCoverage ==
    ERM => \A n \in 1..Len(out.mask) :
             /\ out.data[n] = cube.data[n]
             /\ \A c \in CellsOf(cube.mask[n]) :
                  out.mask[n][c[1]][c[2]] <=>
                      args.coverage[n][c[1]][c[2]] \notin {1, 2}

\* The radar data had its first cell masked where the coverage is 1: the
\* output has that cell unmasked.
C19_Witness ==
    /\ ERM /\ pc = "done"
    /\ cube.mask[1][1][1] /\ args.coverage[1][1][1] = 1
    /\ ~out.mask[1][1][1]

AOE == op = "ApplyOrographicEnhancement"

\* C20 as stated: an ApplyOrographicEnhancement given an operation other
\* than "add" or "subtract" is refused at construction, with no step of
\* process run.
C20_Original ==
    (AOE /\ args.operation \notin {"add", "subtract"}) => RefusedAtConstruction

\* What the code does: construction never raises; an operation other than
\* "add" or "subtract" raises only inside _apply_orographic_enhancement, for
\* the first precipitation cube, with nothing returned.
C20_ErrorAtApply ==
    AOE => /\ ~RefusedAtConstruction
           /\ pc = "error" <=>
                ( /\ plugin.operation \notin {"add", "subtract"}
                  /\ log[Len(log)] = "_apply_orographic_enhancement" )
           /\ pc = "error" => k = 1 /\ out = NoCube

\* An enhancement constructed with "multiply" was handed cubes: the error
\* is raised after the copy of the enhancement has been set to zero where
\* the rate is below the threshold.
C20_Witness ==
    /\ AOE /\ pc = "error"
    /\ args.operation = "multiply"
    /\ "_apply_orographic_enhancement" \in StepsRun
    /\ work # args.orographic_enhancement_cube

CC == op = "ConcatenateCubes"

\* A cube among cubes_in has no master coordinate.
MasterCoordMissing ==
    \E i \in 1..Len(args.cubes_in) :
        plugin.master_coord \notin args.cubes_in[i].coords

\* C21 as stated: process raises whenever a cube of cubes_in has no master
\* coordinate, whatever the form of cubes_in.
C21_Original ==
    (CC /\ "process" \in StepsRun /\ MasterCoordMissing) => pc = "error"

\* C21: process raises the error exactly when cubes_in is a list of two or
\* more cubes one of which has no master coordinate; a single Cube and the
\* cube of a list of one are returned as they are, with or without the
\* master coordinate.
C21_MasterCoordChecked ==
    (CC /\ "process" \in StepsRun) =>
        /\ pc = "error" <=>
             (args.form = "CubeList" /\ Len(args.cubes_in) >= 2
              /\ MasterCoordMissing)
        /\ (args.form = "Cube" \/ Len(args.cubes_in) = 1) =>
               (pc = "done" /\ work = <<args.cubes_in[1]>>)

\* A list of one cube that has no time coordinate was handed to a plugin
\* whose master coordinate is time: the cube came back and no error was
\* raised.
C21_Witness ==
    /\ CC /\ pc = "done" /\ err = ""
    /\ plugin.master_coord = "time"
    /\ args.form = "CubeList" /\ Len(args.cubes_in) = 1
    /\ "time" \notin args.cubes_in[1].coords
    /\ work = args.cubes_in

\* The averaging with full windows: the plane and its mask are padded with
\* the edge-replication halo of width r, averaged, and the halo is cropped.
PaddedNeighbourhood(data, mask, r, sum_or_fraction) ==
    strip_halo(
        neighbourhood(pad_cube_with_halo(data, r, r),
                      pad_cube_with_halo(mask, r, r), r, sum_or_fraction),
        r, r)

\* The window of radius r round the cell c is cut by no edge of the plane p,
\* but for the edges along an axis on which the plane has one line only.
WindowFits(p, c, r) ==
    /\ Len(p) = 1 \/ (c[1] - r >= 1 /\ c[1] + r <= Len(p))
    /\ Len(p[1]) = 1 \/ (c[2] - r >= 1 /\ c[2] + r <= Len(p[1]))

\* C22 as stated: the averaging in mean mode gives every cell of every plane
\* what the averaging with full windows on the padded plane gives it.
C22_Original ==
    (NB /\ plugin.sum_or_fraction = "fraction") =>
        \A n \in 1..Len(out.data) :
            out.data[n] = PaddedNeighbourhood(cube.data[n], cube.mask[n],
                              CellRadius, "fraction")

\* C22: the averaging in mean mode and the averaging with full windows on
\* the padded plane give the same value to every cell whose window is cut by
\* no edge of the plane (an axis on which the plane has a single line
\* aside); at a cell whose window is cut they need not agree, the padded
\* plane counting the edge values more than once.
C22_UncutWindows ==
    (NB /\ plugin.sum_or_fraction = "fraction") =>
        \A n \in 1..Len(out.data) : \A c \in CellsOf(cube.data[n]) :
            WindowFits(cube.data[n], c, CellRadius) =>
                out.data[n][c[1]][c[2]] =
                    PaddedNeighbourhood(cube.data[n], cube.mask[n],
                        CellRadius, "fraction")[c[1]][c[2]]

\* A row of three cells with One on the last was averaged with a radius of
\* one cell: the middle cell is given a third of One either way, the last
\* cell half of One by the truncated window and two thirds by the padding.
C22_Witness ==
    /\ NB /\ pc = "done" /\ plugin.sum_or_fraction = "fraction"
    /\ CellRadius = 1
    /\ cube.data[1] = << <<0, 0, One>> >>
    /\ cube.mask[1] = << <<FALSE, FALSE, FALSE>> >>
    /\ out.data[1] = << <<0, One \div 3, One \div 2>> >>
    /\ PaddedNeighbourhood(cube.data[1], cube.mask[1], 1, "fraction")
           = << <<0, One \div 3, (2 * One) \div 3>> >>

\* The column j of a plane.
Column(p, j) == Strict([i \in 1..Len(p) |-> p[i][j]])

\* The line outp is the forward recursion of the line inp with the alpha line
\* al: its first cell is that of inp, and every other cell is
\* (1 - alpha[i]) * inp[i] + alpha[i] * outp[i - 1].
FollowsForward(inp, outp, al) ==
    /\ Len(outp) = Len(inp)
    /\ outp[1] = inp[1]
    /\ \A i \in 2..Len(inp) :
         outp[i] = ((AlphaDen - al[i]) * inp[i] + al[i] * outp[i - 1])
                       \div AlphaDen

\* C23: a forward pass along x turns every row of the working plane into the
\* forward recursion of that row with its row of alphas, and a forward pass
\* along y every column into that of that column with its column of alphas:
\* output[0] = input[0], output[i] = (1 - alpha[i]) * input[i] +
\* alpha[i] * output[i - 1].  A line of the output is thus fixed by the same
\* line of the input and of the alphas, and by no other line.
C23_ForwardRecursion ==
    [][ /\ (RF /\ pc = "forward_x" /\ pc' = "backward_x") =>
             /\ Len(work') = Len(work)
             /\ \A i \in 1..Len(work) :
                  FollowsForward(work[i], work'[i], alphas.x[i])
        /\ (RF /\ pc = "forward_y" /\ pc' = "backward_y") =>
             /\ Shape(work') = Shape(work)
             /\ \A j \in 1..Len(work[1]) :
                  FollowsForward(Column(work, j), Column(work', j),
                                 Column(alphas.y, j)) ]_vars

\* The first forward pass along x has run, with alpha 1/AlphaDen, over the
\* padded row <<0, 0, 0, One, One, One>>: the step up to One is taken in
\* by three quarters, then by fifteen sixteenths, and so on.
C23_Witness ==
    /\ RF /\ pc = "backward_x" /\ it = 0 /\ k = 1
    /\ cube.data[1] = << <<0, One>> >>
    /\ plugin.edge_width = 1
    /\ alphas.x[1] = <<1, 1, 1, 1, 1, 1>>
    /\ work[1] = <<0, 0, 0, (3 * One) \div 4, (15 * One) \div 16,
                   (63 * One) \div 64>>

\* The forward recursion of one line with its alpha line.
ForwardOf(line, al) == recurse_forward(<<line>>, <<al>>, x_index)[1]

\* The line outp is the mirror of the forward recursion: the reversal of the
\* forward recursion of the reversed line inp with the reversed alpha line;
\* and where inp and al read the same both ways, outp is the forward
\* recursion of inp read from its end.
MirrorsForward(inp, outp, al) ==
    /\ outp = Reverse(ForwardOf(Reverse(inp), Reverse(al)))
    /\ (inp = Reverse(inp) /\ al = Reverse(al)) =>
           \A i \in 1..Len(inp) :
               outp[i] = ForwardOf(inp, al)[Len(inp) + 1 - i]

\* C24: a backward pass along x turns every row of the working plane into
\* the mirror of the forward recursion of that row with its row of alphas,
\* and a backward pass along y every column into that of that column: the
\* last cell is kept and output[i] = (1 - alpha[i]) * input[i] +
\* alpha[i] * output[i + 1].
C24_BackwardMirror ==
    [][ /\ (RF /\ pc = "backward_x" /\ pc' = "forward_y") =>
             /\ Len(work') = Len(work)
             /\ \A i \in 1..Len(work) :
                  /\ MirrorsForward(work[i], work'[i], alphas.x[i])
                  /\ work'[i][Len(work[i])] = work[i][Len(work[i])]
        /\ (RF /\ pc = "backward_y" /\ pc' \in {"forward_x", "strip"}) =>
             /\ Shape(work') = Shape(work)
             /\ \A j \in 1..Len(work[1]) :
                  /\ MirrorsForward(Column(work, j), Column(work', j),
                                    Column(alphas.y, j))
                  /\ work'[Len(work)][j] = work[Len(work)][j] ]_vars

\* The first backward pass along x has run, with alpha 1/AlphaDen, over the
\* row the forward pass made of <<0, 0, 0, One, One, One>>: the last cell is
\* kept and the step now reaches the cells before it.
C24_Witness ==
    /\ RF /\ pc = "forward_y" /\ it = 0 /\ k = 1
    /\ cube.data[1] = << <<0, One>> >>
    /\ plugin.edge_width = 1
    /\ alphas.x[1] = <<1, 1, 1, 1, 1, 1>>
    /\ work[1] = <<819 * (One \div 65536), 819 * (One \div 16384),
                   819 * (One \div 4096), 819 * (One \div 1024),
                   243 * (One \div 256), 63 * (One \div 64)>>

IsDataStep(s) == s \in DataSteps

\* The steps on planes of data that have run, in order.
DataLog == SelectSeq(log, IsDataStep)

RECURSIVE Repeat(_, _)
\* The sequence s, n times over.
Repeat(s, n) == IF n < 1 THEN <<>> ELSE s \o Repeat(s, n - 1)

\* The steps of the filter on one plane: the padding, then for each
\* iteration the forward and backward passes along x and then along y, then
\* the halo taken off, then the mask put back.
PlaneSteps(iterations) ==
    <<"set_up", "pad_cube_with_halo">>
    \o Repeat(<<"recurse_forward_x", "recurse_backward_x",
                "recurse_forward_y", "recurse_backward_y">>, iterations)
    \o <<"strip_halo", "re_mask">>

IsPrefix(a, b) == Len(a) <= Len(b) /\ SubSeq(b, 1, Len(a)) = a

\* One iteration on the padded plane g: forward then backward along x, then
\* forward then backward along y on what the passes along x made.
OneIteration(g) ==
    recurse_backward(
        recurse_forward(
            recurse_backward(recurse_forward(g, alphas.x, x_index),
                             alphas.x, x_index),
            alphas.y, y_index),
        alphas.y, y_index)

RECURSIVE Iterated(_, _)
\* n iterations, each on what the one before made.
Iterated(g, n) == IF n < 1 THEN g ELSE Iterated(OneIteration(g), n - 1)

\* C25: in every run of the recursive filter the steps on each plane come in
\* this order: the padding, then `iterations` times the forward and the
\* backward pass along x followed by the forward and the backward pass along
\* y, then the halo taken off, once, then the mask put back; and the plane
\* returned is the halo-stripped result of the iterations, each run on the
\* output of the one before, under the validity mask of the input.
C25_StepOrder ==
    (RF /\ cube # NoCube) =>
        /\ IsPrefix(DataLog, Repeat(PlaneSteps(plugin.iterations), NumPlanes))
        /\ pc = "done" =>
             /\ DataLog = Repeat(PlaneSteps(plugin.iterations), NumPlanes)
             /\ out.data[1] =
                    strip_halo(
                        Iterated(
                            pad_cube_with_halo(
                                set_up_data(cube.data[1], cube.mask[1]),
                                plugin.edge_width, plugin.edge_width),
                            plugin.iterations),
                        plugin.edge_width, plugin.edge_width)
             /\ out.mask[1] = ValidityMask(cube.data[1], cube.mask[1])

\* A run of two iterations on a single plane with a spike and an invalid
\* cell has ended: eight passes between the padding and the one removal of
\* the halo.
C25_Witness ==
    /\ RF /\ pc = "done" /\ plugin.iterations = 2 /\ NumPlanes = 1
    /\ cube.data[1][1][1] = NaN
    /\ DataLog = <<"set_up", "pad_cube_with_halo",
                   "recurse_forward_x", "recurse_backward_x",
                   "recurse_forward_y", "recurse_backward_y",
                   "recurse_forward_x", "recurse_backward_x",
                   "recurse_forward_y", "recurse_backward_y",
                   "strip_halo", "re_mask">>
    /\ out.mask[1][1][1]

\* The smoothed weight channel of the first plane of the finished call.
FirstWeight ==
    SmoothedWeight(cube.data[1], cube.mask[1], alphas.x, alphas.y,
                   plugin.iterations, plugin.edge_width)

\* The values a and b differ by no more than a part in 256 of One.
Close(a, b) == a - b <= One \div 256 /\ b - a <= One \div 256

\* C26 as stated: every cell of the output of the recursive filter holds the
\* smoothed value channel over the smoothed weight channel where that
\* weight is not zero, and no error is raised.
C26_Original ==
    (RF /\ pc = "done") =>
        /\ err = ""
        /\ \A c \in CellsOf(cube.data[1]) :
             FirstWeight[c[1]][c[2]] > 0 =>
                 Close(out.data[1][c[1]][c[2]],
                       Normalised(
                           RFResult(cube.data[1], cube.mask[1], alphas.x,
                               alphas.y, plugin.iterations,
                               plugin.edge_width).data[c[1]][c[2]],
                           FirstWeight[c[1]][c[2]]))

\* C26: every cell of the output of the recursive filter holds the smoothed
\* value channel (invalid cells entered as 0) as it is, not divided by the
\* smoothed weight channel, so that a valid cell next to an invalid one is
\* pulled towards 0; nothing is divided, a cell whose smoothed weight is zero
\* holds 0, and no error is raised.
C26_ValueChannelOnly ==
    (RF /\ pc = "done") =>
        /\ err = ""
        /\ out.data[1] =
               RFResult(cube.data[1], cube.mask[1], alphas.x, alphas.y,
                        plugin.iterations, plugin.edge_width).data
        /\ LET w == FirstWeight
           IN  \A c \in CellsOf(cube.data[1]) :
                 /\ out.data[1][c[1]][c[2]] <= w[c[1]][c[2]]
                 /\ w[c[1]][c[2]] = 0 => out.data[1][c[1]][c[2]] = 0

\* The filter has run on a row of a NaN and a One: the value channel and
\* the weight channel are the same, their quotient is One, and the cell
\* that held One is given less than three quarters of One.
C26_Witness ==
    /\ RF /\ pc = "done"
    /\ cube.data[1] = << <<NaN, One>> >>
    /\ ~cube.mask[1][1][2]
    /\ FirstWeight[1][2] = out.data[1][1][2]
    /\ 0 < out.data[1][1][2]
    /\ out.data[1][1][2] < 3 * (One \div 4)
    /\ Normalised(out.data[1][1][2], FirstWeight[1][2]) = One

FRH == op = "FillRadarHoles"

\* The window of radius r round the cell c lies inside the plane p.
WindowInside(p, c, r) ==
    /\ c[1] - r >= 1 /\ c[1] + r <= Len(p)
    /\ c[2] - r >= 1 /\ c[2] + r <= Len(p[1])

\* The cells of the window of radius r round c that are masked in the radar
\* plane, and the number of cells of a window.
MaskedInWindow(c, r) ==
    { d \in CellsOf(cube.mask[1]) :
        /\ d[1] - c[1] <= r /\ c[1] - d[1] <= r
        /\ d[2] - c[2] <= r /\ c[2] - d[2] <= r
        /\ cube.mask[1][d[1]][d[2]] }
WindowSize(r) == (2 * r + 1) * (2 * r + 1)

\* C27 as stated: speckle is 1 exactly on the pixels that are masked, whose
\* 9x9 window lies inside the array and holds a masked proportion below
\* 0.3, and 0 on every other pixel.
C27_Original ==
    FRH => \A c \in CellsOf(cube.mask[1]) :
             work[c[1]][c[2]] =
                 IF /\ cube.mask[1][c[1]][c[2]]
                    /\ WindowInside(cube.mask[1], c, 4)
                    /\ 10 * Cardinality(MaskedInWindow(c, 4)) < 3 * WindowSize(4)
                     THEN 1 ELSE 0

\* What the code does: speckle is 1 exactly on the pixels that are masked,
\* whose 9x9 window lies inside the array with one more row after it and
\* one more column after it, and holds a masked proportion below 0.3; a
\* pixel of the last row or the last column whose window lies inside the
\* array is never flagged.
C27_SpeckleFlagged ==
    FRH => \A c \in CellsOf(cube.mask[1]) :
             work[c[1]][c[2]] =
                 IF /\ cube.mask[1][c[1]][c[2]]
                    /\ c[1] - 4 >= 1 /\ c[1] + 4 + 1 <= Len(cube.mask[1])
                    /\ c[2] - 4 >= 1 /\ c[2] + 4 + 1 <= Len(cube.mask[1][1])
                    /\ 10 * Cardinality(MaskedInWindow(c, 4)) < 3 * WindowSize(4)
                     THEN 1 ELSE 0

\* A plane of ten by ten pixels with the single pixel (6, 6) masked: its 9x9
\* window is the rows and columns 2 to 10, inside the array, one pixel in 81
\* is masked, and the pixel is not flagged.
C27_Witness ==
    /\ FRH
    /\ Shape(cube.mask[1]) = <<10, 10>>
    /\ MaskedInWindow(<<6, 6>>, 10) = {<<6, 6>>}
    /\ WindowInside(cube.mask[1], <<6, 6>>, 4)
    /\ work[6][6] = 0

Flagged == { c \in CellsOf(cube.mask[1]) : work[c[1]][c[2]] = 1 }

\* C29: every pixel flagged by _find_speckle has its 5x5 window inside the
\* array, with at least one unmasked cell in it, and lies where the loops of
\* _interpolate_points go, so that no empty set is averaged; after
\* _interpolate_points every flagged pixel is unmasked, and every other
\* pixel has the mask it had.
C29_FlaggedFilled ==
    FRH =>
        /\ \A c \in Flagged :
             /\ WindowInside(cube.mask[1], c, 2)
             /\ Cardinality(MaskedInWindow(c, 2)) < WindowSize(2)
             /\ c \in LoopCells(Len(cube.mask[1]), Len(cube.mask[1][1]),
                               interpolate_points_r)
        /\ pc = "done" =>
             \A c \in CellsOf(cube.mask[1]) :
                 /\ c \in Flagged => ~out.mask[1][c[1]][c[2]]
                 /\ c \notin Flagged =>
                        /\ out.mask[1][c[1]][c[2]] = cube.mask[1][c[1]][c[2]]
                        /\ out.data[1][c[1]][c[2]] = cube.data[1][c[1]][c[2]]

\* A hole of 24 pixels, a block of five by five but for its first cell, on a
\* plane of ten by ten: the pixel in its middle is flagged, 24 of the 25
\* cells of its 5x5 window are masked, and it comes out unmasked with the
\* value of the one unmasked cell.
C29_Witness ==
    /\ FRH /\ pc = "done"
    /\ Shape(cube.mask[1]) = <<10, 10>>
    /\ Flagged = {<<5, 5>>}
    /\ Cardinality(MaskedInWindow(<<5, 5>>, 2)) = 24
    /\ ~cube.mask[1][3][3]
    /\ cube.mask[1][5][5] /\ ~out.mask[1][5][5]
    /\ out.data[1][5][5] = cube.data[1][3][3]

\* The values of the valid cells of the plane n of the caller's cube.
ValidValues(n) ==
    { cube.data[n][c[1]][c[2]] :
        c \in { d \in CellsOf(cube.data[n]) :
                  ~cube.mask[n][d[1]][d[2]] /\ cube.data[n][d[1]][d[2]] # NaN } }

\* v is no less than the least and no more than the greatest value of vals.
Within(v, vals) ==
    /\ \E lo \in vals : lo <= v
    /\ \E hi \in vals : v <= hi

\* The cells of the plane n of the output that hold a number and are not
\* masked.
NumericCells(n) ==
    { c \in CellsOf(out.data[n]) :
        out.data[n][c[1]][c[2]] # NaN /\ ~out.mask[n][c[1]][c[2]] }

\* C30 as stated: every numeric cell of the output of the averaging in mean
\* mode and of the recursive filter lies between the least and the greatest
\* valid value of the same plane of the input.
C30_Original ==
    ((RF \/ (NB /\ plugin.sum_or_fraction = "fraction")) /\ pc = "done") =>
        \A n \in 1..Len(out.data) : \A c \in NumericCells(n) :
            Within(out.data[n][c[1]][c[2]], ValidValues(n))

\* C30: every numeric cell of the output of the averaging in mean mode lies
\* between the least and the greatest valid value of the same plane of the
\* input; so does every cell of the output of the recursive filter on a
\* plane with no invalid cell; on a plane with invalid cells, which enter
\* the recursion as 0, the output of the filter lies between the least and
\* the greatest of the valid values and 0.
C30_WithinRange ==
    /\ (NB /\ plugin.sum_or_fraction = "fraction" /\ pc = "done") =>
          \A n \in 1..Len(out.data) : \A c \in NumericCells(n) :
              Within(out.data[n][c[1]][c[2]], ValidValues(n))
    /\ (RF /\ pc = "done") =>
          \A n \in 1..Len(out.data) : \A c \in CellsOf(out.data[n]) :
              IF Cardinality(ValidValues(n)) >= 1
                 /\ \A d \in CellsOf(cube.data[n]) :
                      ~cube.mask[n][d[1]][d[2]] /\ cube.data[n][d[1]][d[2]] # NaN
                  THEN Within(out.data[n][c[1]][c[2]], ValidValues(n))
                  ELSE Within(out.data[n][c[1]][c[2]],
                              ValidValues(n) \cup {0})

\* The filter has run on a row of a NaN and a One: the only valid value is
\* One, and the cell that held it comes out unmasked and below One.
C30_Witness ==
    /\ RF /\ pc = "done"
    /\ cube.data[1] = << <<NaN, One>> >>
    /\ ValidValues(1) = {One}
    /\ <<1, 2>> \in NumericCells(1)
    /\ out.data[1][1][2] < One
    /\ out.data[1][1][2] > 0

====
